---------------------------- MODULE Spec2Model ----------------------------
(***************************************************************************)
(* The reminder workflow engine (crates/server-model/src/flow.rs):         *)
(* ReminderFlow, a synchronous effect/event state machine.  start() and    *)
(* on_event() return a Command; the host performs the effects and hands    *)
(* the events back.                                                        *)
(*                                                                         *)
(* Representation.                                                         *)
(*   String        a sequence of one-character strings; the fixed texts of *)
(*                 format!() calls are kept as one element each.           *)
(*   Option<T>     <<>> for None, <<x>> for Some(x).                       *)
(*   HashMap       a function whose DOMAIN is the key set.                 *)
(*   enum          a record with a field "kind" (Effect, Event: "type").   *)
(*   EffId(n)      the number n.                                           *)
(***************************************************************************)
EXTENDS Integers, Sequences, FiniteSets, TLC

(***************************************************************************)
(* Bounds of the model.                                                    *)
(***************************************************************************)
\* Calls are explored while next_tag <= MaxTag (a u64 counter in the code).
MaxTag == 7
\* The same, for the specification with an answering host.
MaxHostTag == 10

(***************************************************************************)
(* The calls made on the engine so far, each with the Command it returned. *)
(* Only the specification that feeds them to a second engine records them. *)
(***************************************************************************)
VARIABLE history

(***************************************************************************)
(* Strings.                                                                *)
(***************************************************************************)
None == <<>>
Some(x) == <<x>>
IsSome(o) == o # <<>>
Unwrap(o) == o[1]

\* The characters the model's inputs are written in, in ASCII (byte) order:
\* Rust compares Strings bytewise, which is what BTreeSet/BTreeMap sort by.
Ascii ==
    << " ", "'", "-", ".", "0", "1", "2", "3", "4", "5", "6", "7", "8", "9", ":", "@",
       "A", "B", "C", "D", "E", "F", "G", "H", "I", "J", "K", "L", "M",
       "N", "O", "P", "Q", "R", "S", "T", "U", "V", "W", "X", "Y", "Z", "[", "_",
       "a", "b", "c", "d", "e", "f", "g", "h", "i", "j", "k", "l", "m",
       "n", "o", "p", "q", "r", "s", "t", "u", "v", "w", "x", "y", "z", "{", "}" >>

Code(c) == CHOOSE i \in 1..Len(Ascii) : Ascii[i] = c

\* <String as Ord>::lt : lexicographic over bytes.
RECURSIVE StrLess(_, _)
StrLess(a, b) ==
    IF b = <<>> THEN FALSE
    ELSE IF a = <<>> THEN TRUE
    ELSE IF Head(a) = Head(b) THEN StrLess(Tail(a), Tail(b))
    ELSE Code(Head(a)) < Code(Head(b))

\* BTreeSet<String>::into_iter().collect(): the elements in ascending order.
RECURSIVE Ascending(_)
Ascending(set) ==
    IF set = {} THEN <<>>
    ELSE LET least == CHOOSE a \in set : \A b \in set \ {a} : StrLess(a, b)
         IN  <<least>> \o Ascending(set \ {least})

\* HashMap::new(), HashMap::insert, HashMap::get.
EmptyMap == <<>>
Insert(map, key, val) ==
    [k \in (DOMAIN map) \cup {key} |-> IF k = key THEN val ELSE map[k]]
Get(map, key) == IF key \in DOMAIN map THEN Some(map[key]) ELSE None

DigitChars == <<"0", "1", "2", "3", "4", "5", "6", "7", "8", "9">>
IsAsciiDigit(ch) == \E i \in 1..10 : DigitChars[i] = ch
DigitValue(ch) == (CHOOSE i \in 1..10 : DigitChars[i] = ch) - 1

\* Display of an unsigned integer ({} in format!): its decimal digits.
RECURSIVE Decimal(_)
Decimal(n) ==
    IF n < 10 THEN <<DigitChars[n + 1]>>
    ELSE Decimal(n \div 10) \o <<DigitChars[(n % 10) + 1]>>


(***************************************************************************)
(* Result<T, E>.                                                           *)
(***************************************************************************)
Ok(v) == [ok |-> TRUE, val |-> v]
Err(e) == [ok |-> FALSE, err |-> e]

\* Result<(), String>, the payload of Command::Done and Stage::Done.
Unit == "()"

(***************************************************************************)
(* FlowError and its Display.                                              *)
(***************************************************************************)
ConfigLoad(detail) == [kind |-> "ConfigLoad", s |-> detail, step_index |-> 0]
InvalidConfig(detail) == [kind |-> "InvalidConfig", s |-> detail, step_index |-> 0]
MissingEnvVar(name) == [kind |-> "MissingEnvVar", s |-> name, step_index |-> 0]
MissingCredential(name) == [kind |-> "MissingCredential", s |-> name, step_index |-> 0]
MissingVariable(name) == [kind |-> "MissingVariable", s |-> name, step_index |-> 0]
InvalidTemplate(detail) == [kind |-> "InvalidTemplate", s |-> detail, step_index |-> 0]
StepFailure(index, message) == [kind |-> "StepFailure", s |-> message, step_index |-> index]

\* impl fmt::Display for FlowError (err.to_string()).
to_string(err) ==
    CASE err.kind = "ConfigLoad" -> <<"failed to load configuration: ">> \o err.s
      [] err.kind = "InvalidConfig" -> <<"invalid configuration: ">> \o err.s
      [] err.kind = "MissingEnvVar" ->
            <<"environment variable '">> \o err.s \o <<"' is required">>
      [] err.kind = "MissingCredential" ->
            <<"credential '">> \o err.s \o <<"' is not defined">>
      [] err.kind = "MissingVariable" ->
            <<"value for '">> \o err.s \o <<"' is not available">>
      [] err.kind = "InvalidTemplate" -> <<"template error: ">> \o err.s
      [] err.kind = "StepFailure" ->
            <<"step ">> \o Decimal(err.step_index + 1) \o <<" failed: ">> \o err.s

(***************************************************************************)
(* parse_duration.                                                         *)
(***************************************************************************)
IsWhitespace(ch) == ch = " "

\* str::trim
RECURSIVE TrimStart(_)
TrimStart(s) ==
    IF s # <<>> /\ IsWhitespace(Head(s)) THEN TrimStart(Tail(s)) ELSE s

RECURSIVE TrimEnd(_)
TrimEnd(s) ==
    IF s # <<>> /\ IsWhitespace(s[Len(s)])
    THEN TrimEnd(SubSeq(s, 1, Len(s) - 1))
    ELSE s

Trim(s) == TrimEnd(TrimStart(s))

\* The for loop of parse_duration over the characters left to read:
\* None when a digit follows a unit character, else Some((digits, unit)).
RECURSIVE SplitDigitsUnit(_, _, _)
SplitDigitsUnit(rest, digits, unit) ==
    IF rest = <<>> THEN Some([digits |-> digits, unit |-> unit])
    ELSE IF IsAsciiDigit(Head(rest))
         THEN IF unit # <<>> THEN None
              ELSE SplitDigitsUnit(Tail(rest), digits \o <<Head(rest)>>, unit)
         ELSE SplitDigitsUnit(Tail(rest), digits, unit \o <<Head(rest)>>)

\* digits.parse::<u64>(): None for the empty string, else the value.
RECURSIVE DigitsValue(_)
DigitsValue(digits) ==
    IF digits = <<>> THEN 0
    ELSE 10 * DigitsValue(SubSeq(digits, 1, Len(digits) - 1))
         + DigitValue(digits[Len(digits)])

\* u64: the width, scaled down from 64 bits so that a product of the model
\* stays a number TLC can hold, and u64::MAX.
U64Bits == 27
U64_MAX == 2^U64Bits - 1

\* Whether acc followed by the digits stays within u64 (the checked multiply
\* and add of the integer parser).
RECURSIVE FitsU64(_, _)
FitsU64(digits, acc) ==
    \/ digits = <<>>
    \/ /\ acc <= (U64_MAX - DigitValue(Head(digits))) \div 10
       /\ FitsU64(Tail(digits), 10 * acc + DigitValue(Head(digits)))

\* digits.parse::<u64>().ok(): None for the empty string and for a number
\* above u64::MAX, else the value.
ParseU64(digits) ==
    IF digits = <<>> THEN None
    ELSE IF FitsU64(digits, 0) THEN Some(DigitsValue(digits))
    ELSE None

\* The low bits of a * b: the u64 product of a build without overflow checks.
RECURSIVE WrappingMul(_, _)
WrappingMul(a, b) ==
    IF b = 0 THEN 0
    ELSE (((2 * WrappingMul(a, b \div 2)) % (U64_MAX + 1)) + ((b % 2) * a))
             % (U64_MAX + 1)

\* An overflowing `*` (the dev profile checks for overflow and panics, the
\* release profile does not and wraps): the call either panics or goes on
\* to return wrapped.  Which, the caller's build decides.
Overflow(wrapped) == <<"overflow", wrapped>>
IsOverflow(option) == Len(option) = 2
Panicked == <<"panic", "attempt to multiply with overflow">>

\* What a call that may have overflowed does in one build or another.
Builds(option) == IF IsOverflow(option) THEN {Panicked, option[2]} ELSE {option}

\* Some(Duration::from_secs(value * factor))
FromSecsTimes(value, factor) ==
    IF value > U64_MAX \div factor
    THEN Overflow(Some(WrappingMul(value, factor)))
    ELSE Some(value * factor)

\* The unit match taking an unknown unit for seconds.
DurationOf_Lenient(value, unit) ==
    IF unit = <<"m">> THEN FromSecsTimes(value, 60)
    ELSE IF unit = <<"h">> THEN FromSecsTimes(value, 3600)
    ELSE IF unit = <<"d">> THEN FromSecsTimes(value, 86400)
    ELSE Some(value)

\* The unit match of parse_duration.
DurationOf(value, unit) ==
    IF unit = <<>> THEN Some(value)
    ELSE IF unit = <<"s">> THEN Some(value)
    ELSE IF unit = <<"m">> THEN FromSecsTimes(value, 60)
    ELSE IF unit = <<"h">> THEN FromSecsTimes(value, 3600)
    ELSE IF unit = <<"d">> THEN FromSecsTimes(value, 86400)
    ELSE None

\* let value: u64 = digits.parse().ok()?; and what follows.
DurationOfParsed(parsed, unit) ==
    IF parsed = None THEN None ELSE DurationOf(Unwrap(parsed), unit)

\* parse_duration after its for loop.
DurationOfSplit(split) ==
    IF split = None THEN None
    ELSE DurationOfParsed(ParseU64(Unwrap(split).digits), Unwrap(split).unit)

\* parse_duration after input.trim().
DurationOfTrimmed(trimmed) ==
    IF trimmed = <<>> THEN None
    ELSE DurationOfSplit(SplitDigitsUnit(trimmed, <<>>, <<>>))

\* fn parse_duration -> Option<Duration>, a Duration being its seconds; or
\* Overflow(that Option) when the multiplication overflowed.
parse_duration(input) == DurationOfTrimmed(Trim(input))

(***************************************************************************)
(* The recipe: ValueRef, CredentialSource, Step, FlowConfig and its        *)
(* parsing.  A recipe text is given by what serde_yaml reads from it:      *)
(*   syntax       Some(message) when the text is no YAML document of the   *)
(*                RawConfig shape, else None;                              *)
(*   run_every    the string;                                              *)
(*   credentials  name -> ValueMap;                                        *)
(*   steps        the steps, each value field either a YAML string         *)
(*                [shape |-> "str", s |-> text] or a YAML map              *)
(*                [shape |-> "map", m |-> ValueMap].                       *)
(***************************************************************************)
Literal(t) == [kind |-> "Literal", s |-> t]
Env(n) == [kind |-> "Env", s |-> n]
Credential(n) == [kind |-> "Credential", s |-> n]
Variable(n) == [kind |-> "Variable", s |-> n]

Value(v) == [kind |-> "Value", s |-> v]
EnvVar(n) == [kind |-> "EnvVar", s |-> n]

ValueMap(value, env, credential, var) ==
    [value |-> value, env |-> env, credential |-> credential, var |-> var]

\* CredentialSource::from_map
CredentialSource_from_map(map) ==
    IF IsSome(map.credential) \/ IsSome(map.var)
    THEN Err(<<"credential may only specify 'value' or 'env'">>)
    ELSE IF IsSome(map.value) /\ ~IsSome(map.env) THEN Ok(Value(Unwrap(map.value)))
    ELSE IF ~IsSome(map.value) /\ IsSome(map.env) THEN Ok(EnvVar(Unwrap(map.env)))
    ELSE IF IsSome(map.value) /\ IsSome(map.env)
    THEN Err(<<"credential must specify either 'value' or 'env'">>)
    ELSE Err(<<"credential must specify 'value' or 'env'">>)

\* ValueRef::from_map
ValueRef_from_map(map) ==
    LET set == <<IsSome(map.value), IsSome(map.env), IsSome(map.credential), IsSome(map.var)>>
    IN  IF set = <<TRUE, FALSE, FALSE, FALSE>> THEN Ok(Literal(Unwrap(map.value)))
        ELSE IF set = <<FALSE, TRUE, FALSE, FALSE>> THEN Ok(Env(Unwrap(map.env)))
        ELSE IF set = <<FALSE, FALSE, TRUE, FALSE>> THEN Ok(Credential(Unwrap(map.credential)))
        ELSE IF set = <<FALSE, FALSE, FALSE, TRUE>> THEN Ok(Variable(Unwrap(map.var)))
        ELSE IF set = <<FALSE, FALSE, FALSE, FALSE>>
        THEN Err(<<"value reference must specify one of 'value', 'env', 'credential', or 'var'">>)
        ELSE Err(<<"value reference must specify only one source">>)

\* impl Deserialize for ValueRef: visit_str / visit_string / visit_map.
ValueRef_deserialize(raw) ==
    IF raw.shape = "str" THEN Ok(Literal(raw.s)) ELSE ValueRef_from_map(raw.m)

\* Deserialize of an Option<ValueRef> field (#[serde(default)]).
OptionValueRef_deserialize(raw) ==
    IF raw = None THEN Ok(None)
    ELSE LET r == ValueRef_deserialize(Unwrap(raw))
         IN  IF r.ok THEN Ok(Some(r.val)) ELSE r

\* Deserialize of one RawStep followed by TryFrom<RawStep> for Step, which
\* moves the fields over unchanged.
Step_deserialize(raw) ==
    CASE raw.kind = "GoogleSheet" ->
            LET a == ValueRef_deserialize(raw.sheet_id)
                b == OptionValueRef_deserialize(raw.worksheet)
            IN  IF ~a.ok THEN a
                ELSE IF ~b.ok THEN b
                ELSE Ok([raw EXCEPT !.sheet_id = a.val, !.worksheet = b.val])
      [] raw.kind = "Email" ->
            LET a == ValueRef_deserialize(raw.account)
                b == ValueRef_deserialize(raw.regex)
            IN  IF ~a.ok THEN a
                ELSE IF ~b.ok THEN b
                ELSE Ok([raw EXCEPT !.account = a.val, !.regex = b.val])
      [] raw.kind = "Telegram" ->
            LET a == ValueRef_deserialize(raw.chat_id)
                b == ValueRef_deserialize(raw.message)
            IN  IF ~a.ok THEN a
                ELSE IF ~b.ok THEN b
                ELSE Ok([raw EXCEPT !.chat_id = a.val, !.message = b.val])

RECURSIVE Steps_deserialize(_, _)
Steps_deserialize(raws, steps) ==
    IF raws = <<>> THEN Ok(steps)
    ELSE LET r == Step_deserialize(Head(raws))
         IN  IF r.ok THEN Steps_deserialize(Tail(raws), Append(steps, r.val)) ELSE r

\* serde_yaml::from_str::<RawConfig>: the steps' ValueRef fields are built
\* while deserializing, so their errors are serde errors.
serde_yaml_from_str(contents) ==
    IF IsSome(contents.syntax) THEN Err(Unwrap(contents.syntax))
    ELSE LET steps == Steps_deserialize(contents.steps, <<>>)
         IN  IF steps.ok
             THEN Ok([run_every |-> contents.run_every,
                      credentials |-> contents.credentials,
                      steps |-> steps.val])
             ELSE steps

\* The loop of from_yaml over raw.credentials (a BTreeMap: ascending names).
RECURSIVE Credentials_from_raw(_, _, _)
Credentials_from_raw(names, raw, credentials) ==
    IF names = <<>> THEN Ok(credentials)
    ELSE LET name == Head(names)
             source == CredentialSource_from_map(raw[name])
         IN  IF source.ok
             THEN Credentials_from_raw(Tail(names), raw, Insert(credentials, name, source.val))
             ELSE Err(InvalidConfig(<<"credential '">> \o name \o <<"': ">> \o source.err))

\* from_yaml once the credentials are read: Ok(Self { .. }).
FlowConfigOf(raw, run_every, credentials) ==
    IF ~credentials.ok THEN credentials
    ELSE Ok([run_every |-> run_every,
             credentials |-> credentials.val,
             steps |-> raw.steps])

\* from_yaml in a call where parse_duration overflowed: it panics too, or
\* goes on to return wrapped.
OverflowIn(wrapped) == [ok |-> FALSE, overflow |-> wrapped]
PanickedIn == [ok |-> FALSE, panic |-> Panicked[2]]
BuildsOf(result) ==
    IF "overflow" \in DOMAIN result THEN {PanickedIn, result.overflow} ELSE {result}

\* from_yaml once parse_duration has returned.
FlowConfigOfDuration(raw, run_every) ==
    IF run_every = None THEN Err(InvalidConfig(<<"invalid run_every value">>))
    ELSE IF IsOverflow(run_every)
    THEN OverflowIn(FlowConfigOf(raw, Unwrap(run_every[2]),
                                 Credentials_from_raw(Ascending(DOMAIN raw.credentials),
                                                      raw.credentials, EmptyMap)))
    ELSE FlowConfigOf(raw, Unwrap(run_every),
                      Credentials_from_raw(Ascending(DOMAIN raw.credentials),
                                           raw.credentials, EmptyMap))

\* from_yaml once serde_yaml::from_str has returned.
FlowConfigOfRaw(raw) ==
    IF ~raw.ok THEN Err(InvalidConfig(raw.err))
    ELSE FlowConfigOfDuration(raw.val, parse_duration(raw.val.run_every))

\* FlowConfig::from_yaml
from_yaml(contents) == FlowConfigOfRaw(serde_yaml_from_str(contents))

\* ValueRef::collect_env
ValueRef_collect_env(value, set) ==
    IF value.kind = "Env" THEN set \cup {value.s} ELSE set

\* Step::collect_env
Step_collect_env(step, set) ==
    CASE step.kind = "GoogleSheet" ->
            LET s1 == ValueRef_collect_env(step.sheet_id, set)
            IN  IF IsSome(step.worksheet)
                THEN ValueRef_collect_env(Unwrap(step.worksheet), s1)
                ELSE s1
      [] step.kind = "Email" ->
            ValueRef_collect_env(step.regex, ValueRef_collect_env(step.account, set))
      [] step.kind = "Telegram" ->
            ValueRef_collect_env(step.message, ValueRef_collect_env(step.chat_id, set))

RECURSIVE Steps_collect_env(_, _)
Steps_collect_env(steps, set) ==
    IF steps = <<>> THEN set
    ELSE Steps_collect_env(Tail(steps), Step_collect_env(Head(steps), set))

\* env_requests without the loop over the credentials.
env_requests_StepsOnly(cfg) == Steps_collect_env(cfg.steps, {})

\* FlowConfig::env_requests: the BTreeSet, as a set.
env_requests(cfg) ==
    Steps_collect_env(cfg.steps,
        {cfg.credentials[n].s : n \in {c \in DOMAIN cfg.credentials :
                                         cfg.credentials[c].kind = "EnvVar"}})

(***************************************************************************)
(* Effect, Command, Stage.                                                 *)
(***************************************************************************)
CONFIG_ENV_VAR == <<"REMIND_CONFIG_PATH">>
DEFAULT_CONFIG_PATHS == << <<"~/.remind/config.yaml">>, <<"/etc/remind-config.yaml">> >>
CONFIG_DISCOVERY == [env_var |-> CONFIG_ENV_VAR, fallback_paths |-> DEFAULT_CONFIG_PATHS]

LoadConfig(discovery, tag) == [type |-> "LoadConfig", discovery |-> discovery, tag |-> tag]
ReadEnvVar(name, tag) == [type |-> "ReadEnvVar", name |-> name, tag |-> tag]
FetchGoogleSheetCell(sheet_id, worksheet, cell, credentials, tag) ==
    [type |-> "FetchGoogleSheetCell", sheet_id |-> sheet_id, worksheet |-> worksheet,
     cell |-> cell, credentials |-> credentials, tag |-> tag]
SearchEmails(account, field, regex, credentials, tag) ==
    [type |-> "SearchEmails", account |-> account, field |-> field, regex |-> regex,
     credentials |-> credentials, tag |-> tag]
SendTelegramMessage(chat_id, message, credentials, tag) ==
    [type |-> "SendTelegramMessage", chat_id |-> chat_id, message |-> message,
     credentials |-> credentials, tag |-> tag]
StartTimer(duration, tag) == [type |-> "StartTimer", duration |-> duration, tag |-> tag]

Do(effect) == [kind |-> "Do", effect |-> effect]
Wait == [kind |-> "Wait"]
Done(res) == [kind |-> "Done", res |-> res]

StageInit == [kind |-> "Init"]
WaitingConfig(tag) == [kind |-> "WaitingConfig", tag |-> tag]
LoadingEnv == [kind |-> "LoadingEnv"]
Running == [kind |-> "Running"]
WaitingTimer(tag) == [kind |-> "WaitingTimer", tag |-> tag]
StageDone(res) == [kind |-> "Done", res |-> res]

RunState(step_index, variables, pending) ==
    [step_index |-> step_index, variables |-> variables, pending |-> pending]
PendingStep(step_index, tag, store_as, require_value) ==
    [step_index |-> step_index, tag |-> tag, store_as |-> store_as,
     require_value |-> require_value]

\* What a &mut self method hands back: the engine after the call and the
\* value returned.
Ret(self, cmd) == [self |-> self, cmd |-> cmd]

(***************************************************************************)
(* impl ReminderFlow.  self is the record of the struct's fields.          *)
(***************************************************************************)
\* ReminderFlow::new
new ==
    [stage |-> StageInit,
     next_tag |-> 1,
     config |-> None,
     env_values |-> EmptyMap,
     resolved_credentials |-> EmptyMap,
     pending_env |-> <<>>,
     current_env |-> None,
     run_state |-> None]

\* next_tag() without the increment.
NextTag_Stuck(self) == self

\* next_tag() on a counter that every call on any engine advances.
NextTag_Shared(self) == [self EXCEPT !.next_tag = @ + 1 + Len(history)]

\* fn next_tag(&mut self) -> EffId : the id is the counter before the call.
NextTag(self) == [self EXCEPT !.next_tag = @ + 1]

\* finish_error leaving the run state in place.
finish_error_KeepsRun(self, err) ==
    LET msg == to_string(err)
    IN  Ret([self EXCEPT !.stage = StageDone(Err(msg))], Done(Err(msg)))

\* fn finish_error
finish_error(self, err) ==
    LET msg == to_string(err)
    IN  Ret([self EXCEPT !.stage = StageDone(Err(msg)), !.run_state = None],
            Done(Err(msg)))

\* fn credential_value
credential_value(self, name) ==
    IF name \in DOMAIN self.resolved_credentials
    THEN Ok(self.resolved_credentials[name])
    ELSE Err(MissingCredential(name))

\* str::find: the 0-based index of the first occurrence of pat, or None.
Find(s, pat) ==
    LET hits == {i \in 1..(Len(s) - Len(pat) + 1) : SubSeq(s, i, i + Len(pat) - 1) = pat}
    IN  IF hits = {} THEN None
        ELSE Some((CHOOSE i \in hits : \A j \in hits : i <= j) - 1)

\* The lookup chain in the opposite order: env values, then resolved
\* credentials, then variables.
Lookup_EnvFirst(self, variables, placeholder) ==
    IF placeholder \in DOMAIN self.env_values THEN Some(self.env_values[placeholder])
    ELSE IF placeholder \in DOMAIN self.resolved_credentials
    THEN Some(self.resolved_credentials[placeholder])
    ELSE Get(variables, placeholder)

\* The lookup chain of render_template: variables, then resolved
\* credentials, then env values.
Lookup(self, variables, placeholder) ==
    IF placeholder \in DOMAIN variables THEN Some(variables[placeholder])
    ELSE IF placeholder \in DOMAIN self.resolved_credentials
    THEN Some(self.resolved_credentials[placeholder])
    ELSE Get(self.env_values, placeholder)

\* The while loop of render_template, one operator per let binding.
RECURSIVE RenderLoop(_, _, _, _)

\* The replacement pushed back in front of the text still to be scanned.
RenderReplacement_Rescans(self, rest, output, variables, placeholder, replacement) ==
    IF replacement = None THEN Err(MissingVariable(placeholder))
    ELSE RenderLoop(self, Unwrap(replacement) \o rest, output, variables)

\* replacement = variables.get(..).or_else(..).or_else(..) .ok_or_else(..)?
RenderReplacement(self, rest, output, variables, placeholder, replacement) ==
    IF replacement = None THEN Err(MissingVariable(placeholder))
    ELSE RenderLoop(self, rest, output \o Unwrap(replacement), variables)

\* placeholder = after_brace[..end].trim(); rest is after_brace[end + 2..].
RenderPlaceholder(self, rest, output, variables, placeholder) ==
    IF placeholder = <<>>
    THEN Err(InvalidTemplate(<<"empty placeholder in template">>))
    ELSE RenderReplacement(self, rest, output, variables, placeholder,
                           Lookup(self, variables, placeholder))

\* end = after_brace.find("}}")
RenderAfterBrace(self, after_brace, output, variables, end) ==
    IF end = None
    THEN Err(InvalidTemplate(<<"unclosed placeholder in template">>))
    ELSE RenderPlaceholder(self,
                           SubSeq(after_brace, Unwrap(end) + 3, Len(after_brace)),
                           output, variables,
                           Trim(SubSeq(after_brace, 1, Unwrap(end))))

\* start = remainder.find("{{"); output already holds what was rendered.
RenderFrom(self, remainder, output, variables, start) ==
    IF start = None THEN Ok(output \o remainder)
    ELSE RenderAfterBrace(self,
                          SubSeq(remainder, Unwrap(start) + 3, Len(remainder)),
                          output \o SubSeq(remainder, 1, Unwrap(start)),
                          variables,
                          Find(SubSeq(remainder, Unwrap(start) + 3, Len(remainder)),
                               <<"}", "}">>))

RenderLoop(self, remainder, output, variables) ==
    RenderFrom(self, remainder, output, variables, Find(remainder, <<"{", "{">>))

\* fn render_template
render_template(self, template, variables) ==
    RenderLoop(self, template, <<>>, variables)

\* resolve_value with every typed reference going through the lookup chain
\* of the templates.
resolve_value_AnyScope(self, value, variables) ==
    IF value.kind = "Literal" THEN render_template(self, value.s, variables)
    ELSE IF Lookup(self, variables, value.s) = None
    THEN Err(MissingVariable(value.s))
    ELSE Ok(Unwrap(Lookup(self, variables, value.s)))

\* fn resolve_value
resolve_value(self, value, variables) ==
    CASE value.kind = "Literal" -> render_template(self, value.s, variables)
      [] value.kind = "Env" ->
            IF value.s \in DOMAIN self.env_values
            THEN Ok(self.env_values[value.s])
            ELSE Err(MissingEnvVar(value.s))
      [] value.kind = "Credential" -> credential_value(self, value.s)
      [] value.kind = "Variable" ->
            IF value.s \in DOMAIN variables
            THEN Ok(variables[value.s])
            ELSE Err(MissingVariable(value.s))

\* Result<String, E> -> Result<Option<String>, E> : Some(..?)
SomeOf(r) == IF r.ok THEN Ok(Some(r.val)) ELSE r

\* match worksheet { Some(value) => Some(self.resolve_value(..)?), None => None }
resolve_optional(self, value, variables) ==
    IF value = None THEN Ok(None)
    ELSE SomeOf(resolve_value(self, Unwrap(value), variables))

\* The credentials field handed on as the name the step gives.
resolve_credentials_PassesName(self, credentials) == Ok(credentials)

\* match credentials { Some(name) => Some(self.credential_value(&name)?), None => None }
resolve_credentials(self, credentials) ==
    IF credentials = None THEN Ok(None)
    ELSE SomeOf(credential_value(self, Unwrap(credentials)))

\* The end of execute_step: run.pending = Some(pending); Ok(Command::Do(effect)).
\* self is the engine after next_tag().
SetPending(self, pending, effect) ==
    Ok(Ret(IF IsSome(self.run_state)
           THEN [self EXCEPT !.run_state = Some([Unwrap(@) EXCEPT !.pending = Some(pending)])]
           ELSE self,
           Do(effect)))

\* The Step::GoogleSheet arm of execute_step, its values resolved in the
\* order sheet_id, worksheet, credentials (each with ?), then the tag.
GoogleSheetResolved(self, step_index, step, sheet_id, worksheet, credentials) ==
    IF ~sheet_id.ok THEN sheet_id
    ELSE IF ~worksheet.ok THEN worksheet
    ELSE IF ~credentials.ok THEN credentials
    ELSE SetPending(NextTag(self),
                    PendingStep(step_index, self.next_tag, Some(step.store_as), TRUE),
                    FetchGoogleSheetCell(sheet_id.val, worksheet.val, step.cell,
                                         credentials.val, self.next_tag))

execute_google_sheet(self, step_index, step, variables_snapshot) ==
    GoogleSheetResolved(self, step_index, step,
                        resolve_value(self, step.sheet_id, variables_snapshot),
                        resolve_optional(self, step.worksheet, variables_snapshot),
                        resolve_credentials(self, step.credentials))

\* The Step::Email arm of execute_step: account, regex, credentials, tag.
EmailResolved(self, step_index, step, account, regex, credentials) ==
    IF ~account.ok THEN account
    ELSE IF ~regex.ok THEN regex
    ELSE IF ~credentials.ok THEN credentials
    ELSE SetPending(NextTag(self),
                    PendingStep(step_index, self.next_tag, step.store_as,
                                IsSome(step.store_as)),
                    SearchEmails(account.val, step.field, regex.val,
                                 credentials.val, self.next_tag))

execute_email(self, step_index, step, variables_snapshot) ==
    EmailResolved(self, step_index, step,
                  resolve_value(self, step.account, variables_snapshot),
                  resolve_value(self, step.regex, variables_snapshot),
                  resolve_credentials(self, step.credentials))

\* The Step::Telegram arm of execute_step: chat_id, message, credentials, tag.
TelegramResolved(self, step_index, step, chat_id, message, credentials) ==
    IF ~chat_id.ok THEN chat_id
    ELSE IF ~message.ok THEN message
    ELSE IF ~credentials.ok THEN credentials
    ELSE SetPending(NextTag(self),
                    PendingStep(step_index, self.next_tag, None, FALSE),
                    SendTelegramMessage(chat_id.val, message.val,
                                        credentials.val, self.next_tag))

execute_telegram(self, step_index, step, variables_snapshot) ==
    TelegramResolved(self, step_index, step,
                     resolve_value(self, step.chat_id, variables_snapshot),
                     resolve_value(self, step.message, variables_snapshot),
                     resolve_credentials(self, step.credentials))

\* The match step { .. } of execute_step.
ExecuteStepMatch(self, step_index, step, variables_snapshot) ==
    CASE step.kind = "GoogleSheet" ->
            execute_google_sheet(self, step_index, step, variables_snapshot)
      [] step.kind = "Email" ->
            execute_email(self, step_index, step, variables_snapshot)
      [] step.kind = "Telegram" ->
            execute_telegram(self, step_index, step, variables_snapshot)

\* fn execute_step -> Result<Command, FlowError>
execute_step(self, step_index) ==
    IF self.config = None THEN Err(InvalidConfig(<<"configuration missing">>))
    ELSE IF step_index + 1 > Len(Unwrap(self.config).steps)
    THEN Err(InvalidConfig(<<"step ">> \o Decimal(step_index) \o <<" is missing">>))
    ELSE IF self.run_state = None THEN Err(InvalidConfig(<<"run state missing">>))
    ELSE ExecuteStepMatch(self, step_index,
                          Unwrap(self.config).steps[step_index + 1],
                          Unwrap(self.run_state).variables)

\* The match on execute_step dropping the error and waiting.
CommandOrError_Waits(self, r) == IF r.ok THEN r.val ELSE Ret(self, Wait)

\* The match on execute_step with a tag taken before the step's values
\* were resolved, so that a failed step has used one up.
CommandOrError_TakesTag(self, r) ==
    IF r.ok THEN r.val ELSE finish_error(NextTag(self), r.err)

\* match self.execute_step(step_index) { Ok(cmd) => cmd, Err(err) => self.finish_error(err) }
CommandOrError(self, r) == IF r.ok THEN r.val ELSE finish_error(self, r.err)

\* advance_run ending the workflow with Ok(()) once every step is done.
AdvanceRun_Finishes(self, cfg, run) ==
    IF IsSome(run.pending) THEN Ret(self, Wait)
    ELSE IF run.step_index >= Len(cfg.steps)
    THEN Ret([self EXCEPT !.run_state = None, !.stage = StageDone(Ok(Unit))],
             Done(Ok(Unit)))
    ELSE CommandOrError(self, execute_step(self, run.step_index))

\* advance_run starting the timer one step early.
AdvanceRun_EarlyTimer(self, cfg, run) ==
    IF IsSome(run.pending) THEN Ret(self, Wait)
    ELSE IF run.step_index + 1 >= Len(cfg.steps)
    THEN Ret([NextTag(self) EXCEPT !.run_state = None,
                                   !.stage = WaitingTimer(self.next_tag)],
             Do(StartTimer(cfg.run_every, self.next_tag)))
    ELSE CommandOrError(self, execute_step(self, run.step_index))

\* advance_run ending the cycle only when the index is past the step count.
AdvanceRun_StrictBound(self, cfg, run) ==
    IF IsSome(run.pending) THEN Ret(self, Wait)
    ELSE IF run.step_index > Len(cfg.steps)
    THEN Ret([NextTag(self) EXCEPT !.run_state = None,
                                   !.stage = WaitingTimer(self.next_tag)],
             Do(StartTimer(cfg.run_every, self.next_tag)))
    ELSE CommandOrError(self, execute_step(self, run.step_index))

\* advance_run with config and run_state present.
AdvanceRun(self, cfg, run) ==
    IF IsSome(run.pending) THEN Ret(self, Wait)
    ELSE IF run.step_index >= Len(cfg.steps)
    THEN Ret([NextTag(self) EXCEPT !.run_state = None,
                                   !.stage = WaitingTimer(self.next_tag)],
             Do(StartTimer(cfg.run_every, self.next_tag)))
    ELSE CommandOrError(self, execute_step(self, run.step_index))

\* fn advance_run
advance_run(self) ==
    IF self.config = None THEN Ret(self, Wait)
    ELSE IF self.run_state = None THEN Ret(self, Wait)
    ELSE AdvanceRun(self, Unwrap(self.config), Unwrap(self.run_state))

\* start_run opening the cycle with the env values as its variable scope.
start_run_SeedsScope(self) ==
    IF self.config = None THEN Ret(self, Wait)
    ELSE advance_run([self EXCEPT !.run_state = Some(RunState(0, self.env_values, None)),
                                  !.stage = Running])

\* fn start_run
start_run(self) ==
    IF self.config = None THEN Ret(self, Wait)
    ELSE advance_run([self EXCEPT !.run_state = Some(RunState(0, EmptyMap, None)),
                                  !.stage = Running])

\* The for loop of finalize_credentials over cfg.credentials (ascending names).
RECURSIVE FinalizeLoop(_, _, _, _)

\* One credential: value is the source materialized, None for a missing env.
FinalizeOne(self, names, credentials, resolved, value) ==
    IF value = None THEN Err(MissingEnvVar(credentials[Head(names)].s))
    ELSE FinalizeLoop(self, Tail(names), credentials,
                      Insert(resolved, Head(names), Unwrap(value)))

FinalizeLoop(self, names, credentials, resolved) ==
    IF names = <<>> THEN Ok(resolved)
    ELSE FinalizeOne(self, names, credentials, resolved,
                     IF credentials[Head(names)].kind = "Value"
                     THEN Some(credentials[Head(names)].s)
                     ELSE Get(self.env_values, credentials[Head(names)].s))

\* self.resolved_credentials = resolved; Ok(())
Finalized(self, resolved) ==
    IF resolved.ok THEN Ok([self EXCEPT !.resolved_credentials = resolved.val])
    ELSE resolved

\* fn finalize_credentials -> Result<(), FlowError>; val is the engine after it.
finalize_credentials(self) ==
    IF self.config = None THEN Ok(self)
    ELSE Finalized(self,
                   FinalizeLoop(self, Ascending(DOMAIN Unwrap(self.config).credentials),
                                Unwrap(self.config).credentials, EmptyMap))

\* prepare_env_requests queueing the names in descending order.
prepare_env_requests_Descending(self) ==
    [self EXCEPT !.pending_env =
                     IF IsSome(self.config)
                     THEN [i \in 1..Cardinality(env_requests(Unwrap(self.config))) |->
                              Ascending(env_requests(Unwrap(self.config)))
                                  [Cardinality(env_requests(Unwrap(self.config))) + 1 - i]]
                     ELSE <<>>,
                 !.env_values = EmptyMap,
                 !.resolved_credentials = EmptyMap,
                 !.current_env = None]

\* fn prepare_env_requests
prepare_env_requests(self) ==
    [self EXCEPT !.pending_env = IF IsSome(self.config)
                                 THEN Ascending(env_requests(Unwrap(self.config)))
                                 ELSE <<>>,
                 !.env_values = EmptyMap,
                 !.resolved_credentials = EmptyMap,
                 !.current_env = None]

\* match self.finalize_credentials() { Ok(()) => self.start_run(), Err(err) => .. }
StartRunOrError(self, r) ==
    IF r.ok THEN start_run(r.val) ELSE finish_error(self, r.err)

\* fn fetch_next_env_or_start_run
fetch_next_env_or_start_run(self) ==
    IF IsSome(self.current_env) THEN Ret(self, Wait)
    ELSE IF self.pending_env # <<>>
    THEN Ret([NextTag(self) EXCEPT !.pending_env = Tail(@),
                  !.current_env = Some([name |-> Head(self.pending_env),
                                        tag |-> self.next_tag])],
             Do(ReadEnvVar(Head(self.pending_env), self.next_tag)))
    ELSE StartRunOrError(self, finalize_credentials(self))

\* start() taking Done for Init: a finished engine starts over.
start_Restarts(self) ==
    IF self.stage.kind \in {"Init", "Done"}
    THEN Ret([NextTag(self) EXCEPT !.stage = WaitingConfig(self.next_tag)],
             Do(LoadConfig(CONFIG_DISCOVERY, self.next_tag)))
    ELSE Ret(self, Wait)

\* start() loading the configuration again from any stage but Done.
start_Again(self) ==
    IF self.stage.kind = "Done" THEN Ret(self, Done(self.stage.res))
    ELSE Ret([NextTag(self) EXCEPT !.stage = WaitingConfig(self.next_tag)],
             Do(LoadConfig(CONFIG_DISCOVERY, self.next_tag)))

\* pub fn start
start(self) ==
    IF self.stage.kind = "Init"
    THEN LET tag == self.next_tag
         IN  Ret([NextTag(self) EXCEPT !.stage = WaitingConfig(tag)],
                 Do(LoadConfig(CONFIG_DISCOVERY, tag)))
    ELSE IF self.stage.kind = "Done" THEN Ret(self, Done(self.stage.res))
    ELSE Ret(self, Wait)

(***************************************************************************)
(* Event and on_event.  ConfigLoaded's path is never read by the engine    *)
(* (matched with ..) and is left out.                                      *)
(***************************************************************************)
ConfigLoaded(tag, contents) == [type |-> "ConfigLoaded", tag |-> tag, contents |-> contents]
ConfigLoadFailed(tag, error) == [type |-> "ConfigLoadFailed", tag |-> tag, error |-> error]
EnvVarLoaded(tag, name, value) ==
    [type |-> "EnvVarLoaded", tag |-> tag, name |-> name, value |-> value]
StepCompleted(tag, value) == [type |-> "StepCompleted", tag |-> tag, value |-> value]
StepFailed(tag, error) == [type |-> "StepFailed", tag |-> tag, error |-> error]
TimerFired(tag) == [type |-> "TimerFired", tag |-> tag]

\* The Ok/Err match on from_yaml ignoring a recipe that does not parse.
ConfigParsed_KeepsWaiting(self, cfg) ==
    IF cfg.ok
    THEN fetch_next_env_or_start_run(
             [prepare_env_requests([self EXCEPT !.config = Some(cfg.val)])
                 EXCEPT !.stage = LoadingEnv])
    ELSE Ret(self, Wait)

\* on_event in a call where from_yaml overflowed: the panic unwinds through
\* it before self is touched, or it goes on to return wrapped.
PanickedAt(self, wrapped) ==
    [self |-> self, cmd |-> [kind |-> "Panic"], overflow |-> wrapped]
BuildsAt(ret) ==
    IF "overflow" \in DOMAIN ret THEN {Ret(ret.self, ret.cmd), ret.overflow} ELSE {ret}

RECURSIVE ConfigParsed(_, _)

\* match FlowConfig::from_yaml(&contents) { Ok(cfg) => .., Err(err) => .. }
ConfigParsed(self, cfg) ==
    IF cfg.ok
    THEN fetch_next_env_or_start_run(
             [prepare_env_requests([self EXCEPT !.config = Some(cfg.val)])
                 EXCEPT !.stage = LoadingEnv])
    ELSE IF "overflow" \in DOMAIN cfg
    THEN PanickedAt(self, ConfigParsed(self, cfg.overflow))
    ELSE finish_error(self, cfg.err)

\* The WaitingConfig arm asking for the configuration again when loading
\* failed.
on_event_WaitingConfig_Retries(self, event) ==
    IF event.type = "ConfigLoaded" /\ self.stage.tag = event.tag
    THEN ConfigParsed(self, from_yaml(event.contents))
    ELSE IF event.type = "ConfigLoadFailed" /\ self.stage.tag = event.tag
    THEN Ret([NextTag(self) EXCEPT !.stage = WaitingConfig(self.next_tag)],
             Do(LoadConfig(CONFIG_DISCOVERY, self.next_tag)))
    ELSE Ret(self, Wait)

\* The Stage::WaitingConfig arm of on_event.
on_event_WaitingConfig(self, event) ==
    IF event.type = "ConfigLoaded" /\ self.stage.tag = event.tag
    THEN ConfigParsed(self, from_yaml(event.contents))
    ELSE IF event.type = "ConfigLoadFailed" /\ self.stage.tag = event.tag
    THEN finish_error(self, ConfigLoad(event.error))
    ELSE Ret(self, Wait)

\* The LoadingEnv arm with && for || in the tag and name comparison.
on_event_LoadingEnv_TagOrName(self, event) ==
    IF event.type = "EnvVarLoaded" /\ IsSome(self.current_env)
    THEN IF Unwrap(self.current_env).tag # event.tag
            /\ Unwrap(self.current_env).name # event.name
         THEN Ret(self, Wait)
         ELSE IF IsSome(event.value)
         THEN fetch_next_env_or_start_run(
                  [self EXCEPT !.current_env = None,
                               !.env_values = Insert(@, event.name, Unwrap(event.value))])
         ELSE finish_error([self EXCEPT !.current_env = None],
                           MissingEnvVar(Unwrap(self.current_env).name))
    ELSE Ret(self, Wait)

\* The LoadingEnv arm going on to the next name when the value is None.
on_event_LoadingEnv_SkipsMissing(self, event) ==
    IF event.type = "EnvVarLoaded" /\ IsSome(self.current_env)
    THEN IF Unwrap(self.current_env).tag # event.tag
            \/ Unwrap(self.current_env).name # event.name
         THEN Ret(self, Wait)
         ELSE IF IsSome(event.value)
         THEN fetch_next_env_or_start_run(
                  [self EXCEPT !.current_env = None,
                               !.env_values = Insert(@, event.name, Unwrap(event.value))])
         ELSE fetch_next_env_or_start_run([self EXCEPT !.current_env = None])
    ELSE Ret(self, Wait)

\* The Stage::LoadingEnv arm of on_event.
on_event_LoadingEnv(self, event) ==
    IF event.type = "EnvVarLoaded"
    THEN IF IsSome(self.current_env)
         THEN LET expected_name == Unwrap(self.current_env).name
                  expected_tag == Unwrap(self.current_env).tag
                  cleared == [self EXCEPT !.current_env = None]
              IN  IF expected_tag # event.tag \/ expected_name # event.name
                  THEN Ret(self, Wait)
                  ELSE IF IsSome(event.value)
                  THEN fetch_next_env_or_start_run(
                           [cleared EXCEPT !.env_values =
                                Insert(@, event.name, Unwrap(event.value))])
                  ELSE finish_error(cleared, MissingEnvVar(expected_name))
         ELSE Ret(self, Wait)
    ELSE Ret(self, Wait)

\* The StepCompleted arm without run_state.step_index += 1.
on_event_StepCompleted_SameStep(self, event) ==
    IF self.run_state = None THEN Ret(self, Wait)
    ELSE LET run_state == Unwrap(self.run_state)
         IN  IF run_state.pending = None THEN Ret(self, Wait)
             ELSE LET pending == Unwrap(run_state.pending)
                      taken == [self EXCEPT !.run_state =
                                    Some([run_state EXCEPT !.pending = None])]
                      missing == StepFailure(pending.step_index,
                                             <<"missing value in step result">>)
                      stored ==
                          IF IsSome(pending.store_as)
                          THEN [taken EXCEPT !.run_state =
                                    Some([Unwrap(@) EXCEPT !.variables =
                                        Insert(@, Unwrap(pending.store_as),
                                               Unwrap(event.value))])]
                          ELSE taken
                  IN  IF pending.tag # event.tag THEN Ret(self, Wait)
                      ELSE IF IsSome(pending.store_as) /\ event.value = None
                      THEN finish_error(taken, missing)
                      ELSE IF ~IsSome(pending.store_as) /\ pending.require_value
                              /\ event.value = None
                      THEN finish_error(taken, missing)
                      ELSE advance_run(stored)

\* The StepCompleted arm taking a missing value for no value to store.
on_event_StepCompleted_NoneIsFine(self, event) ==
    IF self.run_state = None THEN Ret(self, Wait)
    ELSE LET run_state == Unwrap(self.run_state)
         IN  IF run_state.pending = None THEN Ret(self, Wait)
             ELSE LET pending == Unwrap(run_state.pending)
                      taken == [self EXCEPT !.run_state =
                                    Some([run_state EXCEPT !.pending = None])]
                      stored ==
                          IF IsSome(pending.store_as) /\ IsSome(event.value)
                          THEN [taken EXCEPT !.run_state =
                                    Some([Unwrap(@) EXCEPT !.variables =
                                        Insert(@, Unwrap(pending.store_as),
                                               Unwrap(event.value))])]
                          ELSE taken
                  IN  IF pending.tag # event.tag THEN Ret(self, Wait)
                      ELSE advance_run(
                               [stored EXCEPT !.run_state =
                                    Some([Unwrap(@) EXCEPT !.step_index = @ + 1])])

\* The StepCompleted arm asking every step for a value.
on_event_StepCompleted_AlwaysRequires(self, event) ==
    IF self.run_state = None THEN Ret(self, Wait)
    ELSE LET run_state == Unwrap(self.run_state)
         IN  IF run_state.pending = None THEN Ret(self, Wait)
             ELSE LET pending == Unwrap(run_state.pending)
                      taken == [self EXCEPT !.run_state =
                                    Some([run_state EXCEPT !.pending = None])]
                      missing == StepFailure(pending.step_index,
                                             <<"missing value in step result">>)
                      stored ==
                          IF IsSome(pending.store_as)
                          THEN [taken EXCEPT !.run_state =
                                    Some([Unwrap(@) EXCEPT !.variables =
                                        Insert(@, Unwrap(pending.store_as),
                                               Unwrap(event.value))])]
                          ELSE taken
                  IN  IF pending.tag # event.tag THEN Ret(self, Wait)
                      ELSE IF event.value = None
                      THEN finish_error(taken, missing)
                      ELSE advance_run(
                               [stored EXCEPT !.run_state =
                                    Some([Unwrap(@) EXCEPT !.step_index = @ + 1])])

\* The StepCompleted arm keeping the value a name already has.
on_event_StepCompleted_KeepsFirst(self, event) ==
    IF self.run_state = None THEN Ret(self, Wait)
    ELSE LET run_state == Unwrap(self.run_state)
         IN  IF run_state.pending = None THEN Ret(self, Wait)
             ELSE LET pending == Unwrap(run_state.pending)
                      taken == [self EXCEPT !.run_state =
                                    Some([run_state EXCEPT !.pending = None])]
                      missing == StepFailure(pending.step_index,
                                             <<"missing value in step result">>)
                      stored ==
                          IF IsSome(pending.store_as)
                             /\ Unwrap(pending.store_as) \notin DOMAIN run_state.variables
                          THEN [taken EXCEPT !.run_state =
                                    Some([Unwrap(@) EXCEPT !.variables =
                                        Insert(@, Unwrap(pending.store_as),
                                               Unwrap(event.value))])]
                          ELSE taken
                  IN  IF pending.tag # event.tag THEN Ret(self, Wait)
                      ELSE IF IsSome(pending.store_as) /\ event.value = None
                      THEN finish_error(taken, missing)
                      ELSE IF ~IsSome(pending.store_as) /\ pending.require_value
                              /\ event.value = None
                      THEN finish_error(taken, missing)
                      ELSE advance_run(
                               [stored EXCEPT !.run_state =
                                    Some([Unwrap(@) EXCEPT !.step_index = @ + 1])])

\* The Event::StepCompleted arm of the Stage::Running arm.
on_event_StepCompleted(self, event) ==
    IF self.run_state = None THEN Ret(self, Wait)
    ELSE LET run_state == Unwrap(self.run_state)
         IN  IF run_state.pending = None THEN Ret(self, Wait)
             ELSE LET pending == Unwrap(run_state.pending)
                      taken == [self EXCEPT !.run_state =
                                    Some([run_state EXCEPT !.pending = None])]
                      missing == StepFailure(pending.step_index,
                                             <<"missing value in step result">>)
                      stored ==
                          IF IsSome(pending.store_as)
                          THEN [taken EXCEPT !.run_state =
                                    Some([Unwrap(@) EXCEPT !.variables =
                                        Insert(@, Unwrap(pending.store_as),
                                               Unwrap(event.value))])]
                          ELSE taken
                  IN  IF pending.tag # event.tag THEN Ret(self, Wait)
                      ELSE IF IsSome(pending.store_as) /\ event.value = None
                      THEN finish_error(taken, missing)
                      ELSE IF ~IsSome(pending.store_as) /\ pending.require_value
                              /\ event.value = None
                      THEN finish_error(taken, missing)
                      ELSE advance_run(
                               [stored EXCEPT !.run_state =
                                    Some([Unwrap(@) EXCEPT !.step_index = @ + 1])])

\* The StepFailed arm executing the pending step once more.
on_event_StepFailed_Retries(self, event) ==
    IF IsSome(self.run_state) /\ IsSome(Unwrap(self.run_state).pending)
       /\ Unwrap(Unwrap(self.run_state).pending).tag = event.tag
    THEN advance_run([self EXCEPT !.run_state =
                          Some([Unwrap(@) EXCEPT !.pending = None])])
    ELSE Ret(self, Wait)

\* The Event::StepFailed arm of the Stage::Running arm.
on_event_StepFailed(self, event) ==
    IF IsSome(self.run_state) /\ IsSome(Unwrap(self.run_state).pending)
       /\ Unwrap(Unwrap(self.run_state).pending).tag = event.tag
    THEN finish_error(self, StepFailure(Unwrap(Unwrap(self.run_state).pending).step_index,
                                        event.error))
    ELSE Ret(self, Wait)

\* The Stage::Running arm of on_event.
on_event_Running(self, event) ==
    CASE event.type = "StepCompleted" -> on_event_StepCompleted(self, event)
      [] event.type = "StepFailed" -> on_event_StepFailed(self, event)
      [] event.type = "TimerFired" -> Ret(self, Wait)
      [] event.type \in {"ConfigLoaded", "ConfigLoadFailed", "EnvVarLoaded"} ->
            Ret(self, Wait)

\* The WaitingTimer arm without the guard *tag == t.
on_event_WaitingTimer_AnyTag(self, event) ==
    IF event.type = "TimerFired" THEN start_run(self) ELSE Ret(self, Wait)

\* The WaitingTimer arm that never starts another cycle.
on_event_WaitingTimer_Ignores(self, event) == Ret(self, Wait)

\* The WaitingTimer arm reading the env vars again before every cycle.
on_event_WaitingTimer_Reloads(self, event) ==
    IF event.type = "TimerFired" /\ self.stage.tag = event.tag
    THEN fetch_next_env_or_start_run(
             prepare_env_requests([self EXCEPT !.stage = LoadingEnv]))
    ELSE Ret(self, Wait)

\* The Stage::WaitingTimer arm of on_event.
on_event_WaitingTimer(self, event) ==
    IF event.type = "TimerFired" /\ self.stage.tag = event.tag
    THEN start_run(self)
    ELSE Ret(self, Wait)

\* The Stage::Done arm of on_event.
on_event_Done(self, event) == Ret(self, Done(self.stage.res))

\* pub fn on_event
on_event(self, event) ==
    CASE self.stage.kind = "WaitingConfig" -> on_event_WaitingConfig(self, event)
      [] self.stage.kind = "LoadingEnv" -> on_event_LoadingEnv(self, event)
      [] self.stage.kind = "Running" -> on_event_Running(self, event)
      [] self.stage.kind = "WaitingTimer" -> on_event_WaitingTimer(self, event)
      [] self.stage.kind = "Init" -> Ret(self, Wait)
      [] self.stage.kind = "Done" -> on_event_Done(self, event)

\* done() reporting success in every stage.
done_AlwaysOk(self) == Ok(Unit)

\* pub fn done
done(self) == IF self.stage.kind = "Done" THEN self.stage.res ELSE Ok(Unit)

(***************************************************************************)
(* Inputs: the recipes and the values a host may deliver.  Names and       *)
(* texts are those of the tests (crates/tests/server-model-tests),         *)
(* shortened.                                                              *)
(***************************************************************************)
GOOGLE_DOCS_TOKEN == <<"G", "D", "T">>
SHEET_ID == <<"S", "I", "D">>
TELEGRAM_BOT_TOKEN == <<"T", "B", "T">>
google_docs == <<"g", "d">>
telegram_bot == <<"t", "b">>
sheet_value == <<"s", "v">>
email_subject == <<"e", "s">>

Str(s) == [shape |-> "str", s |-> s]
Map(m) == [shape |-> "map", m |-> m]
FromEnv(n) == ValueMap(None, Some(n), None, None)

RawGoogleSheet(sheet_id, worksheet, cell, store_as, credentials) ==
    [kind |-> "GoogleSheet", sheet_id |-> sheet_id, worksheet |-> worksheet,
     cell |-> cell, store_as |-> store_as, credentials |-> credentials]
RawEmail(account, field, regex, store_as, credentials) ==
    [kind |-> "Email", account |-> account, field |-> field, regex |-> regex,
     store_as |-> store_as, credentials |-> credentials]
RawTelegram(chat_id, message, credentials) ==
    [kind |-> "Telegram", chat_id |-> chat_id, message |-> message,
     credentials |-> credentials]

Recipe(run_every, credentials, steps) ==
    [syntax |-> None, run_every |-> run_every, credentials |-> credentials,
     steps |-> steps]

\* config_yaml() of the tests.
ReferenceRecipe ==
    Recipe(<<"1", "0", "m">>,
           Insert(Insert(EmptyMap, google_docs, FromEnv(GOOGLE_DOCS_TOKEN)),
                  telegram_bot, FromEnv(TELEGRAM_BOT_TOKEN)),
           << RawGoogleSheet(Map(FromEnv(SHEET_ID)), None, [row |-> 2, column |-> 3],
                             sheet_value, Some(google_docs)),
              RawEmail(Str(<<"a", "@", "e">>), "Subject",
                       Str(<<"A", " ", "{", "{", "s", "v", "}", "}">>),
                       Some(email_subject), None),
              RawTelegram(Str(<<"@", "c">>),
                          Str(<<"W", " ", "{", "{", "e", "s", "}", "}">>),
                          Some(telegram_bot)) >>)

\* The recipe of missing_variable_in_template_fails: "Hello {{missing}}".
MissingVariableRecipe ==
    Recipe(<<"1", "m">>, EmptyMap,
           << RawTelegram(Str(<<"@", "c">>),
                          Str(<<"H", " ", "{", "{", "m", "}", "}">>), None) >>)

\* "invalid: [" of invalid_yaml_fails: no YAML document.
InvalidYaml ==
    [syntax |-> Some(<<"did not find expected node content">>), run_every |-> <<>>,
     credentials |-> EmptyMap, steps |-> <<>>]

\* One env var (through a credential) and three steps: a sheet step that
\* stores a value, an email step that stores none and a telegram step, both
\* reading the stored value.
ThreeStepRecipe ==
    Recipe(<<"2", "h">>,
           Insert(EmptyMap, telegram_bot, FromEnv(TELEGRAM_BOT_TOKEN)),
           << RawGoogleSheet(Str(<<"s">>), None, [row |-> 1, column |-> 1],
                             sheet_value, None),
              RawEmail(Str(<<"a", "@", "e">>), "Sender",
                       Str(<<"{", "{", "s", "v", "}", "}">>), None, None),
              RawTelegram(Str(<<"@", "c">>),
                          Str(<<"{", "{", " ", "s", "v", " ", "}", "}">>),
                          Some(telegram_bot)) >>)

\* Two env vars named out of order and more than once (both credentials,
\* chat_id and message), and one step, so that a cycle is short.
EnvOrderRecipe ==
    Recipe(<<"5", "s">>,
           Insert(Insert(EmptyMap, google_docs, FromEnv(SHEET_ID)),
                  telegram_bot, FromEnv(TELEGRAM_BOT_TOKEN)),
           << RawTelegram(Map(FromEnv(TELEGRAM_BOT_TOKEN)), Map(FromEnv(SHEET_ID)),
                          Some(telegram_bot)) >>)

\* The first step reads the variable that only the second step stores.
LateVariableRecipe ==
    Recipe(<<"1", "m">>, EmptyMap,
           << RawTelegram(Str(<<"@", "c">>),
                          Str(<<"{", "{", "s", "v", "}", "}">>), None),
              RawGoogleSheet(Str(<<"s">>), None, [row |-> 1, column |-> 1],
                             sheet_value, None) >>)

\* No env var and one step: the shortest cycle.
OneStepRecipe ==
    Recipe(<<"3", "0">>, EmptyMap,
           << RawTelegram(Str(<<"@", "c">>), Str(<<"h", "i">>), None) >>)

\* Well-formed YAML naming two env vars, with a run_every that is no duration.
BadDurationRecipe ==
    Recipe(<<"1", "0", "x">>,
           Insert(EmptyMap, telegram_bot, FromEnv(TELEGRAM_BOT_TOKEN)),
           << RawTelegram(Map(FromEnv(SHEET_ID)), Str(<<"h", "i">>),
                          Some(telegram_bot)) >>)

\* Recipes with a step that cannot be resolved: the second step names a
\* credential that is not defined; the only step has an unclosed
\* placeholder; the only step refers to a variable nothing stored.
BrokenRecipes ==
    [credential |->
         Recipe(<<"1", "m">>, EmptyMap,
                << RawTelegram(Str(<<"@", "c">>), Str(<<"h", "i">>), None),
                   RawEmail(Str(<<"a", "@", "e">>), "Body", Str(<<"r">>), None,
                            Some(google_docs)) >>),
     template |->
         Recipe(<<"1", "m">>, EmptyMap,
                << RawTelegram(Str(<<"@", "c">>), Str(<<"h", "{", "{", "i">>), None) >>),
     variable |->
         Recipe(<<"1", "m">>, EmptyMap,
                << RawTelegram(Str(<<"@", "c">>),
                               Map(ValueMap(None, None, None, Some(sheet_value))),
                               None) >>)]

\* Recipes whose steps pass values on.
\*   overwrite: a sheet step stores sv; an email step reads it as a typed
\*     var and in a template and stores its own match under sv again; a
\*     telegram step reads sv in a template.
\*   shadow: the name TBT is an env var (read by a typed env reference), a
\*     credential with a literal value, and the store_as of the first step;
\*     the credential gd comes from the env var SID.
\*   producer: the only step reads in its regex the value it stores.
ScopeRecipes ==
    [overwrite |->
         Recipe(<<"1", "m">>, EmptyMap,
                << RawGoogleSheet(Str(<<"s">>), None, [row |-> 1, column |-> 1],
                                  sheet_value, None),
                   RawEmail(Map(ValueMap(None, None, None, Some(sheet_value))),
                            "Subject",
                            Str(<<"r", "{", "{", "s", "v", "}", "}">>),
                            Some(sheet_value), None),
                   RawTelegram(Str(<<"@", "c">>),
                               Str(<<"{", "{", "s", "v", "}", "}", "!">>), None) >>),
     shadow |->
         Recipe(<<"1", "m">>,
                Insert(Insert(EmptyMap, TELEGRAM_BOT_TOKEN,
                              ValueMap(Some(<<"k">>), None, None, None)),
                       google_docs, FromEnv(SHEET_ID)),
                << RawEmail(Map(FromEnv(TELEGRAM_BOT_TOKEN)), "Subject",
                            Str(<<"{", "{", "T", "B", "T", "}", "}", "-",
                                  "{", "{", "S", "I", "D", "}", "}">>),
                            Some(TELEGRAM_BOT_TOKEN), Some(TELEGRAM_BOT_TOKEN)),
                   RawTelegram(Str(<<"{", "{", "T", "B", "T", "}", "}">>),
                               Map(ValueMap(None, None, Some(TELEGRAM_BOT_TOKEN), None)),
                               Some(google_docs)) >>),
     producer |->
         Recipe(<<"1", "m">>, EmptyMap,
                << RawEmail(Str(<<"a", "@", "e">>), "Subject",
                            Str(<<"{", "{", "e", "s", "}", "}">>),
                            Some(email_subject), None) >>)]

\* Recipes with "steps: []": without env var, and with one credential read
\* from an env var.
EmptyRecipes ==
    [plain |-> Recipe(<<"5">>, EmptyMap, <<>>),
     env |-> Recipe(<<"2", "m">>,
                    Insert(EmptyMap, google_docs, FromEnv(SHEET_ID)), <<>>)]

\* What a host may put into an event.
Values == {<<"x">>, <<"y">>}
Errors == {<<"t", "i", "m", "e", "o", "u", "t">>}
EnvNames == {TELEGRAM_BOT_TOKEN, SHEET_ID}
Contents ==
    {InvalidYaml, MissingVariableRecipe, ThreeStepRecipe, EnvOrderRecipe,
     LateVariableRecipe, OneStepRecipe, BadDurationRecipe,
     BrokenRecipes.credential, BrokenRecipes.template, BrokenRecipes.variable,
     ScopeRecipes.overwrite, ScopeRecipes.shadow, ScopeRecipes.producer,
     EmptyRecipes.plain, EmptyRecipes.env}
HostContents == {ReferenceRecipe, ThreeStepRecipe, EnvOrderRecipe}

(***************************************************************************)
(* The state: the fields of one ReminderFlow, and what a host observes of  *)
(* it: the last call made and the Command it returned, whether that call   *)
(* changed the engine, and the effects emitted so far.                     *)
(***************************************************************************)
VARIABLES stage, next_tag, config, env_values, resolved_credentials,
          pending_env, current_env, run_state, call, cmd, advanced, emitted

engine == <<stage, next_tag, config, env_values, resolved_credentials,
            pending_env, current_env, run_state>>
vars == <<stage, next_tag, config, env_values, resolved_credentials,
          pending_env, current_env, run_state, call, cmd, advanced, emitted,
          history>>

Self ==
    [stage |-> stage, next_tag |-> next_tag, config |-> config,
     env_values |-> env_values, resolved_credentials |-> resolved_credentials,
     pending_env |-> pending_env, current_env |-> current_env,
     run_state |-> run_state]

\* No call made yet.
NoCall == [op |-> "new"]
NoCommand == [kind |-> "None"]
CallStart == [op |-> "start"]
CallOnEvent(event) == [op |-> "on_event", event |-> event]

Init ==
    /\ stage = new.stage
    /\ next_tag = new.next_tag
    /\ config = new.config
    /\ env_values = new.env_values
    /\ resolved_credentials = new.resolved_credentials
    /\ pending_env = new.pending_env
    /\ current_env = new.current_env
    /\ run_state = new.run_state
    /\ call = NoCall
    /\ cmd = NoCommand
    /\ advanced = FALSE
    /\ emitted = <<>>
    /\ history = <<>>

\* One call on the engine: ret is what the method hands back.
Answered(c, ret) ==
    /\ stage' = ret.self.stage
    /\ next_tag' = ret.self.next_tag
    /\ config' = ret.self.config
    /\ env_values' = ret.self.env_values
    /\ resolved_credentials' = ret.self.resolved_credentials
    /\ pending_env' = ret.self.pending_env
    /\ current_env' = ret.self.current_env
    /\ run_state' = ret.self.run_state
    /\ call' = c
    /\ cmd' = ret.cmd
    /\ advanced' = (ret.self # Self)
    /\ emitted' = IF ret.cmd.kind = "Do" THEN Append(emitted, ret.cmd.effect) ELSE emitted

Called(c, ret) == Answered(c, ret) /\ history' = history

Send(event) ==
    \E ret \in BuildsAt(on_event(Self, event)) : Called(CallOnEvent(event), ret)

Tags == 1..MaxTag
OptionalValues == {None} \cup {Some(v) : v \in Values}

\* The host calls start().
Start ==
    /\ next_tag <= MaxTag
    /\ Called(CallStart, start(Self))

\* The host calls on_event() with any event.
OnConfigLoaded ==
    /\ next_tag <= MaxTag
    /\ \E tag \in Tags, contents \in Contents : Send(ConfigLoaded(tag, contents))

OnConfigLoadFailed ==
    /\ next_tag <= MaxTag
    /\ \E tag \in Tags, error \in Errors : Send(ConfigLoadFailed(tag, error))

OnEnvVarLoaded ==
    /\ next_tag <= MaxTag
    /\ \E tag \in Tags, name \in EnvNames, value \in OptionalValues :
           Send(EnvVarLoaded(tag, name, value))

OnStepCompleted ==
    /\ next_tag <= MaxTag
    /\ \E tag \in Tags, value \in OptionalValues : Send(StepCompleted(tag, value))

OnStepFailed ==
    /\ next_tag <= MaxTag
    /\ \E tag \in Tags, error \in Errors : Send(StepFailed(tag, error))

OnTimerFired ==
    /\ next_tag <= MaxTag
    /\ \E tag \in Tags : Send(TimerFired(tag))

Next ==
    \/ Start
    \/ OnConfigLoaded
    \/ OnConfigLoadFailed
    \/ OnEnvVarLoaded
    \/ OnStepCompleted
    \/ OnStepFailed
    \/ OnTimerFired

\* Any host: any call, any event, in any order.
Spec == Init /\ [][Next]_vars

(***************************************************************************)
(* A host that performs every effect and answers it with the matching      *)
(* successful event, as the test flow_runs_through_steps does: the recipe  *)
(* for LoadConfig, a value for ReadEnvVar, the fetched or matched value    *)
(* for a sheet or email step, no value for a telegram step, TimerFired     *)
(* for StartTimer.                                                         *)
(***************************************************************************)
Emits(type) == cmd.kind = "Do" /\ cmd.effect.type = type

HostStart ==
    /\ call = NoCall
    /\ Called(CallStart, start(Self))

HostLoadsConfig ==
    /\ next_tag <= MaxHostTag
    /\ Emits("LoadConfig")
    /\ \E contents \in HostContents : Send(ConfigLoaded(cmd.effect.tag, contents))

HostReadsEnvVar ==
    /\ next_tag <= MaxHostTag
    /\ Emits("ReadEnvVar")
    /\ \E v \in Values : Send(EnvVarLoaded(cmd.effect.tag, cmd.effect.name, Some(v)))

HostFetchesCell ==
    /\ next_tag <= MaxHostTag
    /\ Emits("FetchGoogleSheetCell")
    /\ \E v \in Values : Send(StepCompleted(cmd.effect.tag, Some(v)))

HostSearchesEmails ==
    /\ next_tag <= MaxHostTag
    /\ Emits("SearchEmails")
    /\ \E v \in Values : Send(StepCompleted(cmd.effect.tag, Some(v)))

HostSendsTelegram ==
    /\ next_tag <= MaxHostTag
    /\ Emits("SendTelegramMessage")
    /\ Send(StepCompleted(cmd.effect.tag, None))

HostFiresTimer ==
    /\ next_tag <= MaxHostTag
    /\ Emits("StartTimer")
    /\ Send(TimerFired(cmd.effect.tag))

HostNext ==
    \/ HostStart
    \/ HostLoadsConfig
    \/ HostReadsEnvVar
    \/ HostFetchesCell
    \/ HostSearchesEmails
    \/ HostSendsTelegram
    \/ HostFiresTimer

HostSpec == Init /\ [][HostNext]_vars

\* A host step is possible: start() was not called yet, or the last command
\* is an effect and tags remain.  This is ENABLED <<HostNext>>_vars.
HostCanAnswer == call = NoCall \/ (next_tag <= MaxHostTag /\ cmd.kind = "Do")

\* The host calls start() and answers every effect in the end: weak fairness
\* of HostStart, and weak fairness of HostNext written out with HostCanAnswer
\* for ENABLED <<HostNext>>_vars.
HostLive ==
    /\ Init /\ [][HostNext]_vars
    /\ WF_vars(HostStart)
    /\ ([]<>(~HostCanAnswer) \/ []<><<HostNext>>_vars)

(***************************************************************************)
(* Two engines: the calls made on the first are recorded and fed, in the   *)
(* same order, to a second one created with new().  The host makes at most *)
(* MaxCalls calls: start(), or an event under the tag emitted last or      *)
(* under the stale tag 1.                                                  *)
(***************************************************************************)
MaxCalls == 5

Recorded(c, ret) ==
    /\ Answered(c, ret)
    /\ history' = Append(history, [call |-> c, cmd |-> ret.cmd])

Record(c) ==
    IF c.op = "start" THEN Recorded(c, start(Self))
    ELSE Recorded(c, on_event(Self, c.event))

ReplayTags == {1, IF next_tag > 1 THEN next_tag - 1 ELSE 1}

ReplayStart ==
    /\ Len(history) < MaxCalls
    /\ Record(CallStart)

ReplayConfigLoaded ==
    /\ Len(history) < MaxCalls
    /\ \E tag \in ReplayTags,
          contents \in {OneStepRecipe, EnvOrderRecipe, ScopeRecipes.producer} :
           Record(CallOnEvent(ConfigLoaded(tag, contents)))

ReplayEnvVarLoaded ==
    /\ Len(history) < MaxCalls
    /\ \E tag \in ReplayTags, name \in EnvNames :
           Record(CallOnEvent(EnvVarLoaded(tag, name, Some(<<"x">>))))

ReplayStepCompleted ==
    /\ Len(history) < MaxCalls
    /\ \E tag \in ReplayTags : Record(CallOnEvent(StepCompleted(tag, None)))

ReplayTimerFired ==
    /\ Len(history) < MaxCalls
    /\ \E tag \in ReplayTags : Record(CallOnEvent(TimerFired(tag)))

ReplayNext ==
    \/ ReplayStart
    \/ ReplayConfigLoaded
    \/ ReplayEnvVarLoaded
    \/ ReplayStepCompleted
    \/ ReplayTimerFired

ReplaySpec == Init /\ [][ReplayNext]_vars

\* The second engine: what it returns for one recorded call.
Apply(self, c) ==
    IF c.op = "start" THEN start(self) ELSE on_event(self, c.event)

(***************************************************************************)
(* resolve_value and render_template as functions of their inputs: the     *)
(* env values and resolved credentials of the engine, drawn at the start,  *)
(* and the value reference or template and the variables handed in by each *)
(* call.  The fields they do not read are those of new().  The name x may  *)
(* be in any scope, with a value that tells the scope; z is in none.  call *)
(* holds the arguments and cmd the Result.                                 *)
(***************************************************************************)
ScopeName == <<"x">>
NoName == <<"z">>
Braces(name) == <<"{", "{">> \o name \o <<"}", "}">>

EnvScopes == {EmptyMap, Insert(EmptyMap, ScopeName, <<"e">>)}
CredentialScopes == {EmptyMap, Insert(EmptyMap, ScopeName, <<"c">>)}
VariableScopes ==
    {EmptyMap, Insert(EmptyMap, ScopeName, <<"y">>),
     Insert(EmptyMap, ScopeName, Braces(NoName))}

TypedRefs ==
    {Env(ScopeName), Credential(ScopeName), Variable(ScopeName),
     Env(NoName), Credential(NoName), Variable(NoName)}

Templates ==
    {<<"a", "b">>,
     Braces(ScopeName),
     Braces(<<" ">> \o ScopeName \o <<" ">>),
     Braces(<<>>),
     Braces(<<" ", " ">>),
     <<"a", "{", "{">> \o ScopeName,
     <<"a">> \o Braces(ScopeName) \o <<"b">>,
     Braces(<<>>) \o <<"{", "{">> \o ScopeName,
     Braces(ScopeName) \o <<"{", "{">>,
     Braces(NoName) \o Braces(<<>>),
     Braces(ScopeName) \o <<"}", "}">>,
     <<"}", "}">> \o Braces(ScopeName),
     Braces(ScopeName) \o Braces(ScopeName),
     <<"{">> \o Braces(ScopeName)}

ResolveInit ==
    /\ stage = new.stage
    /\ next_tag = new.next_tag
    /\ config = new.config
    /\ env_values \in EnvScopes
    /\ resolved_credentials \in CredentialScopes
    /\ pending_env = new.pending_env
    /\ current_env = new.current_env
    /\ run_state = new.run_state
    /\ call = NoCall
    /\ cmd = NoCommand
    /\ advanced = FALSE
    /\ emitted = <<>>
    /\ history = <<>>

\* self.resolve_value(&value, &variables) with a typed reference.
ResolveValue ==
    /\ \E value \in TypedRefs, variables \in VariableScopes :
           /\ call' = [op |-> "resolve_value", value |-> value, variables |-> variables]
           /\ cmd' = resolve_value(Self, value, variables)
    /\ UNCHANGED <<engine, advanced, emitted, history>>

\* self.resolve_value(&ValueRef::Literal(template), &variables), which is
\* self.render_template(&template, &variables).
RenderTemplate ==
    /\ \E template \in Templates, variables \in VariableScopes :
           /\ call' = [op |-> "render_template", template |-> template,
                       variables |-> variables]
           /\ cmd' = resolve_value(Self, Literal(template), variables)
    /\ UNCHANGED <<engine, advanced, emitted, history>>

ResolveNext == ResolveValue \/ RenderTemplate

ResolveSpec == ResolveInit /\ [][ResolveNext]_vars

(***************************************************************************)
(* parse_duration and the run_every of from_yaml as functions of the       *)
(* string: every string of at most MaxLen characters over digits, the      *)
(* space, the four units and one other letter.  call holds the input and   *)
(* cmd the Option or Result.                                               *)
(***************************************************************************)
MaxLen == 4

DurationChars == {"0", "1", " ", "s", "m", "h", "d", "x"}

DurationInputs ==
    UNION {[1..n -> DurationChars] : n \in 0..MaxLen}

\* The string is drawn at the start; no call was made yet.
DurationInit ==
    /\ stage = new.stage
    /\ next_tag = new.next_tag
    /\ config = new.config
    /\ env_values = new.env_values
    /\ resolved_credentials = new.resolved_credentials
    /\ pending_env = new.pending_env
    /\ current_env = new.current_env
    /\ run_state = new.run_state
    /\ call \in {[op |-> "input", input |-> input] : input \in DurationInputs}
    /\ cmd = NoCommand
    /\ advanced = FALSE
    /\ emitted = <<>>
    /\ history = <<>>

\* parse_duration(input)
ParseDuration ==
    /\ call.op = "input"
    /\ call' = [op |-> "parse_duration", input |-> call.input]
    /\ cmd' \in Builds(parse_duration(call.input))
    /\ UNCHANGED <<engine, advanced, emitted, history>>

\* FlowConfig::from_yaml of a recipe with that run_every, no credentials and
\* no steps.
ParseRecipe ==
    /\ call.op = "input"
    /\ call' = [op |-> "from_yaml", input |-> call.input]
    /\ cmd' \in BuildsOf(from_yaml(Recipe(call.input, EmptyMap, <<>>)))
    /\ UNCHANGED <<engine, advanced, emitted, history>>

DurationNext == ParseDuration \/ ParseRecipe

DurationSpec == DurationInit /\ [][DurationNext]_vars

(***************************************************************************)
(* parse_duration and from_yaml at the edge of u64: numbers around         *)
(* u64::MAX and around u64::MAX / 60, / 3600 and / 86400, without a unit   *)
(* and with each unit, and a digit run ten times too large for u64.        *)
(***************************************************************************)
Factors == {60, 3600, 86400}

OverflowValues ==
    {0, 1, 2, U64_MAX - 1, U64_MAX}
        \cup {(U64_MAX \div factor) + d : factor \in Factors, d \in {-1, 0, 1}}

OverflowInputs ==
    {Decimal(v) \o unit :
         v \in OverflowValues, unit \in {<<>>, <<"s">>, <<"m">>, <<"h">>, <<"d">>}}
        \cup {Decimal(U64_MAX) \o <<"0">> \o unit : unit \in {<<>>, <<"m">>}}

OverflowInit ==
    /\ stage = new.stage
    /\ next_tag = new.next_tag
    /\ config = new.config
    /\ env_values = new.env_values
    /\ resolved_credentials = new.resolved_credentials
    /\ pending_env = new.pending_env
    /\ current_env = new.current_env
    /\ run_state = new.run_state
    /\ call \in {[op |-> "input", input |-> input] : input \in OverflowInputs}
    /\ cmd = NoCommand
    /\ advanced = FALSE
    /\ emitted = <<>>
    /\ history = <<>>

OverflowSpec == OverflowInit /\ [][DurationNext]_vars

(***************************************************************************)
(* Any host that also asks done() between its calls.  done() takes &self:  *)
(* call holds the question and cmd the Result it returned.                 *)
(***************************************************************************)
AskDone ==
    /\ next_tag <= MaxTag
    /\ call' = [op |-> "done"]
    /\ cmd' = done(Self)
    /\ advanced' = FALSE
    /\ UNCHANGED <<engine, emitted, history>>

AccessorNext == Next \/ AskDone

AccessorSpec == Init /\ [][AccessorNext]_vars

(***************************************************************************)
(* What the claims speak of.                                               *)
(***************************************************************************)
\* The effect tags an event is awaited for, one entry per place that holds
\* one: the config tag, the current env request, the pending step, the
\* timer tag.
AwaitedIn(self) ==
    (IF self.stage.kind = "WaitingConfig" THEN <<self.stage.tag>> ELSE <<>>)
    \o (IF IsSome(self.current_env) THEN <<Unwrap(self.current_env).tag>> ELSE <<>>)
    \o (IF IsSome(self.run_state) /\ IsSome(Unwrap(self.run_state).pending)
        THEN <<Unwrap(Unwrap(self.run_state).pending).tag>> ELSE <<>>)
    \o (IF self.stage.kind = "WaitingTimer" THEN <<self.stage.tag>> ELSE <<>>)

Awaited == AwaitedIn(Self)
AwaitedTags == {Awaited[i] : i \in 1..Len(Awaited)}

Last(seq) == seq[Len(seq)]
EmittedNow == emitted' # emitted
ByEvent == call'.op = "on_event"

StepEffectTypes == {"FetchGoogleSheetCell", "SearchEmails", "SendTelegramMessage"}
LiveStages == {"WaitingConfig", "LoadingEnv", "Running", "WaitingTimer"}

\* C1: at most one effect tag is awaited in every reachable state (config
\* tag, current env request, pending step, timer tag together), it is the
\* tag of the effect emitted last, and an effect is emitted only by start()
\* when nothing is awaited or by on_event() with the awaited tag: never
\* while the event of an earlier effect is still awaited.
C1_OneOutstanding ==
    /\ [](/\ Len(Awaited) <= 1
          /\ Len(Awaited) = 1 => (emitted # <<>> /\ Awaited[1] = Last(emitted).tag))
    /\ [][EmittedNow =>
             \/ Awaited = <<>>
             \/ ByEvent /\ <<call'.event.tag>> = Awaited]_vars

\* C1 witness: a step effect is awaited after env loading and a first step.
C1_Witness ==
    /\ stage.kind = "Running"
    /\ Len(Awaited) = 1
    /\ Len(emitted) >= 4
    /\ Unwrap(run_state).step_index = 1

\* C2: the tags of the emitted effects are pairwise different; they come
\* from a counter that starts at 1 and only increases, so they increase in
\* emission order and stay below the counter.
C2_UniqueTags ==
    /\ next_tag >= 1
    /\ \A i \in 1..Len(emitted) : emitted[i].tag >= 1 /\ emitted[i].tag < next_tag
    /\ \A i, j \in 1..Len(emitted) : i < j => emitted[i].tag < emitted[j].tag

\* C2 witness: a second cycle has begun, with effects of every kind emitted.
C2_Witness ==
    /\ Len(emitted) >= 7
    /\ {emitted[i].type : i \in 1..Len(emitted)} =
           {"LoadConfig", "ReadEnvVar", "StartTimer"} \cup StepEffectTypes

\* The event types a stage has an arm for.
Belongs(kind, type) ==
    \/ kind = "WaitingConfig" /\ type \in {"ConfigLoaded", "ConfigLoadFailed"}
    \/ kind = "LoadingEnv" /\ type = "EnvVarLoaded"
    \/ kind = "Running" /\ type \in {"StepCompleted", "StepFailed"}
    \/ kind = "WaitingTimer" /\ type = "TimerFired"

\* An EnvVarLoaded with the awaited tag and another name than the requested.
OtherName(event) ==
    /\ stage.kind = "LoadingEnv"
    /\ event.type = "EnvVarLoaded"
    /\ IsSome(current_env)
    /\ event.tag = Unwrap(current_env).tag
    /\ event.name # Unwrap(current_env).name

Ignored == cmd' = Wait /\ UNCHANGED engine

C4_WrongTypeIgnored ==
    [][(ByEvent /\ ~Belongs(stage.kind, call'.event.type)) => Ignored]_vars

\* C5, as claimed: a completion event accepted by one call and fed again by
\* the next call makes that second call return Wait and change no state.
C5_SecondCallWaits ==
    [][(/\ call.op = "on_event"
        /\ call.event.type \in {"ConfigLoaded", "EnvVarLoaded", "StepCompleted",
                                "StepFailed", "TimerFired"}
        /\ advanced
        /\ call' = call)
       => Ignored]_vars

\* C6: once the stage is Done no call changes any field of the engine (the
\* stored result included) and no call returns Do(effect).
C6_DoneAbsorbing ==
    [][stage.kind = "Done" =>
           /\ UNCHANGED engine
           /\ cmd'.kind # "Do"
           /\ emitted' = emitted]_vars

\* C6 witness: start() was called on an engine that is Done.
C6_Witness ==
    /\ stage.kind = "Done"
    /\ call.op = "start"
    /\ ~advanced
    /\ cmd.kind = "Done"

\* C7, as claimed: in Done, start() returns Done(res) without mutation and
\* on_event() returns Wait for every event.
C7_DoneReturns ==
    [][stage.kind = "Done" =>
           /\ UNCHANGED engine
           /\ call'.op = "start" => cmd' = Done(stage.res)
           /\ call'.op = "on_event" => cmd' = Wait]_vars

\* An accepted StepCompleted for the last step of the recipe.
LastStepCompleted ==
    /\ stage.kind = "Running"
    /\ ByEvent
    /\ call'.event.type = "StepCompleted"
    /\ IsSome(run_state)
    /\ IsSome(Unwrap(run_state).pending)
    /\ call'.event.tag = Unwrap(Unwrap(run_state).pending).tag
    /\ Unwrap(Unwrap(run_state).pending).step_index + 1 = Len(Unwrap(config).steps)
    /\ \/ IsSome(call'.event.value)
       \/ /\ ~IsSome(Unwrap(Unwrap(run_state).pending).store_as)
          /\ ~Unwrap(Unwrap(run_state).pending).require_value

\* C8: a Done stage holds Err(message), no call returns Done(Ok(())), and
\* completing the last step of a cycle yields StartTimer, not Done.
C8_DoneOnlyOnError ==
    /\ [](stage.kind = "Done" => ~stage.res.ok)
    /\ [](cmd.kind = "Done" => ~cmd.res.ok)
    /\ [][LastStepCompleted =>
              /\ cmd' = Do(StartTimer(Unwrap(config).run_every, next_tag))
              /\ stage' = WaitingTimer(next_tag)]_vars

\* C8 witness: the last step of a cycle was completed and the timer started.
C8_Witness ==
    /\ stage.kind = "WaitingTimer"
    /\ call.op = "on_event"
    /\ call.event.type = "StepCompleted"
    /\ advanced
    /\ cmd.kind = "Do"
    /\ cmd.effect.type = "StartTimer"

\* The effect type execute_step emits for a step.
StepEffect(step) ==
    CASE step.kind = "GoogleSheet" -> "FetchGoogleSheetCell"
      [] step.kind = "Email" -> "SearchEmails"
      [] step.kind = "Telegram" -> "SendTelegramMessage"

\* Position pos of a cycle: the steps in recipe order, then the timer.
ExpectedInCycle(cfg, pos, e) ==
    IF pos < Len(cfg.steps)
    THEN e.type = StepEffect(cfg.steps[pos + 1])
    ELSE e.type = "StartTimer" /\ e.duration = cfg.run_every

\* The i-th effect of a run whose required env names are names.
ExpectedEffect(cfg, names, i, e) ==
    IF i <= 1 + Len(names)
    THEN e.type = "ReadEnvVar" /\ e.name = names[i - 1]
    ELSE ExpectedInCycle(cfg, (i - 2 - Len(names)) % (Len(cfg.steps) + 1), e)

\* The effects flow_runs_through_steps sees, in order.
ReferenceSequence ==
    << "LoadConfig", "ReadEnvVar", "ReadEnvVar", "ReadEnvVar",
       "FetchGoogleSheetCell", "SearchEmails", "SendTelegramMessage",
       "StartTimer", "FetchGoogleSheetCell" >>

ReferenceEnvOrder == <<GOOGLE_DOCS_TOKEN, SHEET_ID, TELEGRAM_BOT_TOKEN>>

ReferenceSeconds == 10 * 60

EmittedTypes == [i \in 1..Len(emitted) |-> emitted[i].type]

\* C9: a host that answers every effect with its successful event always
\* gets Do(effect) back, and the effects are LoadConfig with
\* CONFIG_DISCOVERY, one ReadEnvVar per required env name, then in every
\* cycle one effect per step in recipe order and a StartTimer of run_every;
\* for the recipe of the reference test that is LoadConfig, ReadEnvVar x3,
\* FetchGoogleSheetCell, SearchEmails, SendTelegramMessage, StartTimer(600s),
\* FetchGoogleSheetCell.
C9_HostSequence ==
    /\ call # NoCall =>
           /\ cmd.kind = "Do"
           /\ emitted # <<>>
           /\ cmd.effect = Last(emitted)
           /\ emitted[1].type = "LoadConfig"
           /\ emitted[1].discovery = CONFIG_DISCOVERY
    /\ \A i \in 2..Len(emitted) :
           /\ IsSome(config)
           /\ ExpectedEffect(Unwrap(config),
                             Ascending(env_requests(Unwrap(config))),
                             i, emitted[i])
    /\ config = Some(from_yaml(ReferenceRecipe).val) =>
           \A i \in 1..Len(emitted) :
               /\ i <= Len(ReferenceSequence) => emitted[i].type = ReferenceSequence[i]
               /\ i \in 2..4 => emitted[i].name = ReferenceEnvOrder[i - 1]
               /\ i = 8 => emitted[i].duration = ReferenceSeconds

\* C9 witness: the host of the reference test has seen the nine effects.
C9_Witness ==
    /\ config = Some(from_yaml(ReferenceRecipe).val)
    /\ EmittedTypes = ReferenceSequence
    /\ call.op = "on_event"
    /\ call.event.type = "TimerFired"

\* The call that emitted an effect found no cycle in progress and was given
\* the event the engine awaited.
EntersCycle ==
    /\ run_state = None
    /\ stage.kind \in {"WaitingConfig", "LoadingEnv", "WaitingTimer"}
    /\ ByEvent
    /\ <<call'.event.tag>> = Awaited

\* The call that emitted an effect was an accepted StepCompleted carrying
\* the tag of the effect of step n, the effect emitted last.
CompletesStep(n) ==
    /\ stage.kind = "Running"
    /\ ByEvent
    /\ call'.event.type = "StepCompleted"
    /\ IsSome(run_state)
    /\ IsSome(Unwrap(run_state).pending)
    /\ Unwrap(Unwrap(run_state).pending).step_index = n
    /\ Unwrap(Unwrap(run_state).pending).tag = call'.event.tag
    /\ Last(emitted).tag = call'.event.tag
    /\ Last(emitted).type = StepEffect(Unwrap(config).steps[n + 1])

\* The step effect just emitted is that of the pending step n.
EmitsStep(n) ==
    /\ n + 1 <= Len(Unwrap(config').steps)
    /\ Last(emitted').type = StepEffect(Unwrap(config').steps[n + 1])
    /\ n = 0 => EntersCycle
    /\ n >= 1 => CompletesStep(n - 1)

\* C10: under any interleaving of events, the effect of step 0 is emitted
\* only on entering a cycle, the effect of step N >= 1 only by an accepted
\* StepCompleted carrying the tag of the effect of step N-1, and the timer
\* that ends the cycle only by the completion of the last step: no step is
\* skipped or repeated.
C10_RecipeOrder ==
    [][EmittedNow =>
          /\ Last(emitted').type \in StepEffectTypes =>
                /\ IsSome(run_state')
                /\ IsSome(Unwrap(run_state').pending)
                /\ Unwrap(Unwrap(run_state').pending).tag = Last(emitted').tag
                /\ EmitsStep(Unwrap(Unwrap(run_state').pending).step_index)
          /\ Last(emitted').type = "StartTimer" =>
                IF Unwrap(config').steps = <<>> THEN EntersCycle
                ELSE CompletesStep(Len(Unwrap(config').steps) - 1)]_vars

\* C10 witness: the third step's effect was emitted by the completion of the
\* second step.
C10_Witness ==
    /\ stage.kind = "Running"
    /\ call.op = "on_event"
    /\ call.event.type = "StepCompleted"
    /\ advanced
    /\ cmd.kind = "Do"
    /\ IsSome(Unwrap(run_state).pending)
    /\ Unwrap(Unwrap(run_state).pending).step_index = 2
    /\ Last(emitted).type = "SendTelegramMessage"
    /\ emitted[Len(emitted) - 1].tag = call.event.tag

IsReadEnvVar(e) == e.type = "ReadEnvVar"

\* The names of the ReadEnvVar effects emitted so far, in emission order.
NamesRead ==
    [i \in 1..Len(SelectSeq(emitted, IsReadEnvVar)) |->
        SelectSeq(emitted, IsReadEnvVar)[i].name]

IsPrefix(a, b) == Len(a) <= Len(b) /\ \A i \in 1..Len(a) : a[i] = b[i]

\* The env names a parsed recipe requires, as the queue is built from them.
RequiredNames == Ascending(env_requests(Unwrap(config)))

\* The ReadEnvVar just emitted answers either the accepted configuration or
\* the accepted value of the name requested before it.
AfterPreviousName ==
    \/ /\ stage.kind = "WaitingConfig"
       /\ call'.event.type = "ConfigLoaded"
       /\ call'.event.tag = stage.tag
       /\ NamesRead = <<>>
    \/ /\ stage.kind = "LoadingEnv"
       /\ call'.event.type = "EnvVarLoaded"
       /\ IsSome(current_env)
       /\ call'.event.tag = Unwrap(current_env).tag
       /\ call'.event.name = Unwrap(current_env).name
       /\ IsSome(call'.event.value)
       /\ IsReadEnvVar(Last(emitted))
       /\ Last(emitted).name = call'.event.name
       /\ Last(emitted).tag = call'.event.tag

\* C11: the names of the ReadEnvVar effects are strictly ascending, each
\* required name is requested exactly once however often and in whichever
\* order the recipe names it (all of them once the first cycle has begun),
\* and a ReadEnvVar is emitted only by the accepted ConfigLoaded or by the
\* accepted EnvVarLoaded that carries a value for the name requested before.
C11_EnvOrder ==
    /\ [](/\ \A i, j \in 1..Len(NamesRead) : i < j => StrLess(NamesRead[i], NamesRead[j])
          /\ NamesRead # <<>> => IsSome(config) /\ IsPrefix(NamesRead, RequiredNames)
          /\ stage.kind \in {"Running", "WaitingTimer"} => NamesRead = RequiredNames
          /\ config = Some(from_yaml(EnvOrderRecipe).val)
                 => IsPrefix(NamesRead, <<SHEET_ID, TELEGRAM_BOT_TOKEN>>))
    /\ [][(EmittedNow /\ IsReadEnvVar(Last(emitted'))) =>
              ByEvent /\ AfterPreviousName]_vars

\* C11 witness: both names of the recipe that names them out of order and
\* repeatedly were requested, and the first cycle began.
C11_Witness ==
    /\ config = Some(from_yaml(EnvOrderRecipe).val)
    /\ stage.kind = "Running"
    /\ NamesRead = <<SHEET_ID, TELEGRAM_BOT_TOKEN>>
    /\ call.op = "on_event"
    /\ call.event.type = "EnvVarLoaded"

\* The step of the recipe whose effect has the given type.
StepOf(cfg, type) ==
    CHOOSE step \in {cfg.steps[i] : i \in 1..Len(cfg.steps)} : StepEffect(step) = type

\* The value references that read env values or credentials.
IsFixedRef(ref) == ref.kind \in {"Env", "Credential"}

\* Two effects of one step agree on the credentials and on every field the
\* step takes from an env var or a credential.
SameFixedValues(step, a, b) ==
    /\ a.credentials = b.credentials
    /\ CASE step.kind = "GoogleSheet" ->
                /\ IsFixedRef(step.sheet_id) => a.sheet_id = b.sheet_id
                /\ (IsSome(step.worksheet) /\ IsFixedRef(Unwrap(step.worksheet)))
                       => a.worksheet = b.worksheet
         [] step.kind = "Email" ->
                /\ IsFixedRef(step.account) => a.account = b.account
                /\ IsFixedRef(step.regex) => a.regex = b.regex
         [] step.kind = "Telegram" ->
                /\ IsFixedRef(step.chat_id) => a.chat_id = b.chat_id
                /\ IsFixedRef(step.message) => a.message = b.message

\* C12: once the first cycle has started (Running or WaitingTimer) no call
\* changes the configuration, env_values or resolved_credentials and none
\* emits LoadConfig or ReadEnvVar; any two effects of one step, of whichever
\* cycles, carry the same credentials and env-derived values.
C12_EnvFixed ==
    /\ [][stage.kind \in {"Running", "WaitingTimer"} =>
              /\ UNCHANGED <<config, env_values, resolved_credentials, pending_env,
                             current_env>>
              /\ EmittedNow => Last(emitted').type \notin {"LoadConfig", "ReadEnvVar"}]_vars
    /\ [](\A i, j \in 1..Len(emitted) :
              (i < j /\ emitted[i].type \in StepEffectTypes
                     /\ emitted[j].type = emitted[i].type)
              => SameFixedValues(StepOf(Unwrap(config), emitted[i].type),
                                 emitted[i], emitted[j]))

\* C12 witness: the step whose chat, message and credentials come from two
\* env vars with different values was emitted in a second cycle.
C12_Witness ==
    /\ config = Some(from_yaml(EnvOrderRecipe).val)
    /\ stage.kind = "Running"
    /\ call.op = "on_event"
    /\ call.event.type = "TimerFired"
    /\ advanced
    /\ Len(emitted) = 6
    /\ emitted[4].type = "SendTelegramMessage"
    /\ emitted[6].type = "SendTelegramMessage"
    /\ emitted[6].chat_id = <<"y">>
    /\ emitted[6].message = <<"x">>
    /\ emitted[6].credentials = Some(<<"y">>)
    /\ emitted[4].tag < emitted[6].tag

\* A call moved the engine into Running from another stage.
CycleEntered == stage.kind # "Running" /\ stage'.kind = "Running"

\* C13: a cycle is entered (after env loading or an accepted TimerFired)
\* with step index 0, the first step pending and an empty variable scope,
\* whatever earlier cycles stored; the recipe whose first step names the
\* variable that only its second step stores ends at once with
\* "value for 'sv' is not available" and emits no step effect.
C13_ScopeReset ==
    /\ [][CycleEntered =>
              /\ stage.kind \in {"WaitingConfig", "LoadingEnv", "WaitingTimer"}
              /\ run_state = None
              /\ IsSome(run_state')
              /\ Unwrap(run_state').step_index = 0
              /\ Unwrap(run_state').variables = EmptyMap
              /\ IsSome(Unwrap(run_state').pending)
              /\ Unwrap(Unwrap(run_state').pending).step_index = 0]_vars
    /\ [](config = Some(from_yaml(LateVariableRecipe).val) =>
              /\ stage = StageDone(Err(<<"value for '">> \o sheet_value
                                       \o <<"' is not available">>))
              /\ Len(emitted) = 1)

\* C13 witness: the second cycle of the three-step recipe was entered with
\* an empty scope after the first cycle had stored and used the variable.
C13_Witness ==
    /\ config = Some(from_yaml(ThreeStepRecipe).val)
    /\ stage.kind = "Running"
    /\ call.op = "on_event"
    /\ call.event.type = "TimerFired"
    /\ advanced
    /\ Len(emitted) = 7
    /\ emitted[4].regex = <<"x">>
    /\ emitted[5].message = <<"x">>
    /\ Unwrap(run_state).variables = EmptyMap
    /\ Unwrap(run_state).step_index = 0

\* The last command answers the TimerFired of the StartTimer emitted before
\* it with the first step's effect.
FirstStepAgain ==
    /\ call.op = "on_event"
    /\ call.event.type = "TimerFired"
    /\ Len(emitted) >= 2
    /\ emitted[Len(emitted) - 1].type = "StartTimer"
    /\ emitted[Len(emitted) - 1].tag = call.event.tag
    /\ cmd = Do(Last(emitted))
    /\ cmd.effect.type = StepEffect(Unwrap(config).steps[1])
    /\ stage.kind = "Running"

\* C14: with a host that answers every effect with its successful event, the
\* engine never reaches Done and every call returns Do; a StartTimer is
\* emitted, every StartTimer is followed after TimerFired by the first
\* step's effect of a new cycle, and that by the StartTimer of the new
\* cycle (as far as the tags reach).
C14_Endless ==
    /\ [](stage.kind # "Done" /\ (call # NoCall => cmd.kind = "Do"))
    /\ (call = NoCall) ~> Emits("StartTimer")
    /\ (Emits("StartTimer") /\ cmd.effect.tag < MaxHostTag) ~> FirstStepAgain
    /\ (FirstStepAgain /\ cmd.effect.tag + Len(Unwrap(config).steps) <= MaxHostTag)
           ~> Emits("StartTimer")

\* C14 witness: a third StartTimer was emitted.
C14_Witness ==
    /\ Emits("StartTimer")
    /\ Len(SelectSeq(emitted, LAMBDA e : e.type = "StartTimer")) = 3
    /\ call.event.type = "StepCompleted"
    /\ stage.kind = "WaitingTimer"

IsStartTimer(e) == e.type = "StartTimer"

\* The StartTimer effects emitted so far, in emission order.
Timers == SelectSeq(emitted, IsStartTimer)

\* The call changed the engine.
Accepted == engine' # engine

\* C15: the accepted completion of the last step clears the run state, takes
\* a tag not used before, moves to WaitingTimer with it and returns
\* StartTimer{run_every} with it; a TimerFired is accepted only in
\* WaitingTimer and only with the tag of the StartTimer emitted last, so
\* never before a StartTimer and never with the timer tag of an earlier
\* cycle; WaitingTimer is left only by that TimerFired.
C15_TimerCycle ==
    /\ [][LastStepCompleted =>
              /\ run_state' = None
              /\ next_tag' = next_tag + 1
              /\ \A i \in 1..Len(emitted) : emitted[i].tag # next_tag
              /\ stage' = WaitingTimer(next_tag)
              /\ cmd' = Do(StartTimer(Unwrap(config).run_every, next_tag))
              /\ emitted' = Append(emitted, cmd'.effect)]_vars
    /\ [][(ByEvent /\ call'.event.type = "TimerFired" /\ Accepted) =>
              /\ stage.kind = "WaitingTimer"
              /\ Timers # <<>>
              /\ call'.event.tag = Last(Timers).tag
              /\ call'.event.tag = stage.tag
              /\ Last(emitted) = Last(Timers)]_vars
    /\ [][(stage.kind = "WaitingTimer" /\ Accepted) =>
              ByEvent /\ call'.event.type = "TimerFired"]_vars

\* C15 witness: waiting for the second timer, the engine ignored a
\* TimerFired carrying the tag of the first cycle's timer.
C15_Witness ==
    /\ stage.kind = "WaitingTimer"
    /\ Len(Timers) = 2
    /\ stage.tag = Timers[2].tag
    /\ call.op = "on_event"
    /\ call.event.type = "TimerFired"
    /\ call.event.tag = Timers[1].tag
    /\ cmd = Wait
    /\ ~advanced

\* The message of FlowError::MissingEnvVar(name).
EnvRequired(name) ==
    Err(<<"environment variable '">> \o name \o <<"' is required">>)

\* C16: in LoadingEnv an EnvVarLoaded with the awaited tag and name and no
\* value returns Done(Err("environment variable '<name>' is required")),
\* makes the stage Done with that result and emits nothing; in that Done
\* stage the last effect emitted is the ReadEnvVar of that name and no step
\* effect was emitted, whatever names are still queued.
C16_MissingEnvVar ==
    /\ [][(/\ stage.kind = "LoadingEnv"
           /\ ByEvent
           /\ call'.event.type = "EnvVarLoaded"
           /\ IsSome(current_env)
           /\ call'.event.tag = Unwrap(current_env).tag
           /\ call'.event.name = Unwrap(current_env).name
           /\ call'.event.value = None)
          => /\ cmd' = Done(EnvRequired(call'.event.name))
             /\ stage' = StageDone(EnvRequired(call'.event.name))
             /\ emitted' = emitted
             /\ next_tag' = next_tag]_vars
    /\ [](\A name \in EnvNames :
              stage = StageDone(EnvRequired(name)) =>
                  /\ Last(emitted) = ReadEnvVar(name, next_tag - 1)
                  /\ \A i \in 1..Len(emitted) : emitted[i].type \notin StepEffectTypes)

\* C16 witness: the first of two required names came back without a value;
\* the second is still queued and was never requested.
C16_Witness ==
    /\ config = Some(from_yaml(EnvOrderRecipe).val)
    /\ stage = StageDone(EnvRequired(SHEET_ID))
    /\ cmd = Done(EnvRequired(SHEET_ID))
    /\ call.op = "on_event"
    /\ call.event.type = "EnvVarLoaded"
    /\ call.event.value = None
    /\ advanced
    /\ pending_env = <<TELEGRAM_BOT_TOKEN>>
    /\ NamesRead = <<SHEET_ID>>

\* The message of FlowError::ConfigLoad(error).
LoadFailed(error) == Err(<<"failed to load configuration: ">> \o error)

\* C17: in WaitingConfig{T}, ConfigLoadFailed{T, error} returns
\* Done(Err("failed to load configuration: <error>")), makes the stage Done
\* with that result and emits no effect.
C17_ConfigLoadFailed ==
    [][(/\ stage.kind = "WaitingConfig"
        /\ ByEvent
        /\ call'.event.type = "ConfigLoadFailed"
        /\ call'.event.tag = stage.tag)
       => /\ cmd' = Done(LoadFailed(call'.event.error))
          /\ stage' = StageDone(LoadFailed(call'.event.error))
          /\ emitted' = emitted
          /\ next_tag' = next_tag
          /\ config' = None]_vars

\* C17 witness: the run of config_not_found_fails.
C17_Witness ==
    /\ call.op = "on_event"
    /\ call.event.type = "ConfigLoadFailed"
    /\ advanced
    /\ \E error \in Errors :
           /\ call.event.error = error
           /\ cmd = Done(LoadFailed(error))
           /\ stage = StageDone(LoadFailed(error))
    /\ Len(emitted) = 1
    /\ emitted[1].type = "LoadConfig"

\* C18: in WaitingConfig{T}, ConfigLoaded{T} whose contents do not parse as a
\* recipe returns Done(Err(msg)) with msg beginning "invalid configuration: ",
\* makes the stage Done with that result, stores no configuration and no env
\* request and emits no effect.
C18_InvalidConfig ==
    [][(/\ stage.kind = "WaitingConfig"
        /\ ByEvent
        /\ call'.event.type = "ConfigLoaded"
        /\ call'.event.tag = stage.tag
        /\ ~from_yaml(call'.event.contents).ok)
       => /\ cmd'.kind = "Done"
          /\ ~cmd'.res.ok
          /\ Len(cmd'.res.err) >= 2
          /\ Head(cmd'.res.err) = "invalid configuration: "
          /\ stage' = StageDone(cmd'.res)
          /\ config' = None
          /\ pending_env' = <<>>
          /\ current_env' = None
          /\ env_values' = EmptyMap
          /\ emitted' = emitted
          /\ next_tag' = next_tag]_vars

\* C18 witness: a recipe that names env vars but has no valid run_every was
\* refused, and none of its env names is queued or requested.
C18_Witness ==
    /\ call = CallOnEvent(ConfigLoaded(1, BadDurationRecipe))
    /\ advanced
    /\ stage = StageDone(Err(<<"invalid configuration: ">>
                             \o <<"invalid run_every value">>))
    /\ cmd = Done(stage.res)
    /\ pending_env = <<>>
    /\ Len(emitted) = 1

\* The messages of the errors of resolve_value and credential_value.
NotAvailable(name) == Err(<<"value for '">> \o name \o <<"' is not available">>)
NotDefined(name) == Err(<<"credential '">> \o name \o <<"' is not defined">>)
TemplateError(detail) == Err(<<"template error: ">> \o <<detail>>)

\* The call about to be answered makes the engine prepare step n of the
\* recipe: the accepted ConfigLoaded of a recipe without env vars for step
\* 0, the accepted StepCompleted of step n - 1 otherwise.
Prepares(recipe, n) ==
    /\ ByEvent
    /\ IF n = 0
       THEN /\ stage.kind = "WaitingConfig"
            /\ call'.event = ConfigLoaded(stage.tag, recipe)
       ELSE /\ stage.kind = "Running"
            /\ call'.event.type = "StepCompleted"
            /\ IsSome(Unwrap(run_state).pending)
            /\ Unwrap(Unwrap(run_state).pending).step_index = n - 1
            /\ Unwrap(Unwrap(run_state).pending).tag = call'.event.tag
            /\ config = Some(from_yaml(recipe).val)

\* Preparing step n of the recipe ends the workflow with the error and
\* emits nothing.
FailsAt(recipe, n, error) ==
    Prepares(recipe, n) =>
        /\ cmd' = Done(error)
        /\ stage' = StageDone(error)
        /\ run_state' = None
        /\ emitted' = emitted
        /\ next_tag' = next_tag

\* With the recipe loaded, the effects of steps n and later never exist.
StopsBefore(recipe, n) ==
    config = Some(from_yaml(recipe).val) =>
        /\ Len(SelectSeq(emitted, LAMBDA e : e.type \in StepEffectTypes)) <= n
        /\ stage.kind \in {"Running", "Done"}
        /\ stage.kind = "Running" =>
               /\ IsSome(run_state)
               /\ IsSome(Unwrap(run_state).pending)
               /\ Unwrap(Unwrap(run_state).pending).step_index < n

NumberInMessage(index) ==
    CASE index = 0 -> <<"1">> [] index = 1 -> <<"2">> [] index = 2 -> <<"3">>

\* The call about to be answered reports, in Running, the failure of the
\* pending step under its tag.
PendingStepFailed ==
    /\ ByEvent
    /\ stage.kind = "Running"
    /\ call'.event.type = "StepFailed"
    /\ IsSome(run_state)
    /\ IsSome(Unwrap(run_state).pending)
    /\ Unwrap(Unwrap(run_state).pending).tag = call'.event.tag

\* The cycles completed so far, one StartTimer each.
CyclesCompleted == Len(SelectSeq(emitted, LAMBDA e : e.type = "StartTimer"))

\* C20: in Running, StepFailed{tag, error} with the pending step's tag ends
\* the workflow with Done(Err("step <n> failed: <error>")), n being the
\* pending step's 0-based index plus 1; the step is not retried, no timer is
\* started and no effect is emitted then or afterwards, whatever the cycle.
C20_StepFailed ==
    /\ [][PendingStepFailed =>
              LET error == Err(<<"step ">>
                               \o NumberInMessage(
                                      Unwrap(Unwrap(run_state).pending).step_index)
                               \o <<" failed: ">> \o call'.event.error)
              IN  /\ cmd' = Done(error)
                  /\ stage' = StageDone(error)
                  /\ run_state' = None
                  /\ emitted' = emitted
                  /\ next_tag' = next_tag]_vars
    /\ [][stage.kind = "Done" => emitted' = emitted /\ stage' = stage]_vars

\* C20 witness: the first step failed in the second cycle and the workflow
\* ended with its message, the effect of that step being the last one.
C20_Witness ==
    /\ call.op = "on_event"
    /\ call.event.type = "StepFailed"
    /\ advanced
    /\ CyclesCompleted = 1
    /\ Last(emitted).type # "StartTimer"
    /\ cmd = Done(Err(<<"step ">> \o <<"1">> \o <<" failed: ">>
                      \o <<"t", "i", "m", "e", "o", "u", "t">>))
    /\ stage = StageDone(cmd.res)

\* The call about to be answered completes, in Running, the pending step
\* under its tag.
PendingStepCompleted ==
    /\ ByEvent
    /\ stage.kind = "Running"
    /\ call'.event.type = "StepCompleted"
    /\ IsSome(run_state)
    /\ IsSome(Unwrap(run_state).pending)
    /\ Unwrap(Unwrap(run_state).pending).tag = call'.event.tag

\* The pending step and the step of the recipe it stands for.
ThePending == Unwrap(Unwrap(run_state).pending)
PendingRecipeStep == Unwrap(config).steps[ThePending.step_index + 1]

\* A step whose result must carry a value: every sheet step, and an email
\* step that stores its match.
RequiresValue(step) ==
    \/ step.kind = "GoogleSheet"
    \/ step.kind = "Email" /\ IsSome(step.store_as)

MissingValue(index) ==
    Err(<<"step ">> \o NumberInMessage(index) \o <<" failed: ">>
        \o <<"missing value in step result">>)

\* C21: StepCompleted with the pending tag and no value ends the workflow
\* with Done(Err("step <n> failed: missing value in step result")) exactly
\* when the pending step is a sheet step or an email step with store_as; the
\* run state, with its step index and variables, is dropped, nothing is
\* emitted, and a completion that carries a value never gives this error.
C21_MissingValue ==
    [][PendingStepCompleted =>
          /\ (call'.event.value = None /\ RequiresValue(PendingRecipeStep))
                 <=> cmd' = Done(MissingValue(ThePending.step_index))
          /\ cmd' = Done(MissingValue(ThePending.step_index)) =>
                 /\ stage' = StageDone(MissingValue(ThePending.step_index))
                 /\ run_state' = None
                 /\ emitted' = emitted
                 /\ next_tag' = next_tag
          /\ ThePending.require_value = RequiresValue(PendingRecipeStep)]_vars

\* C21 witness: the email step that stores its match, the second step, was
\* completed without a value.
C21_Witness ==
    /\ config = Some(from_yaml(ScopeRecipes.overwrite).val)
    /\ call = CallOnEvent(StepCompleted(3, None))
    /\ advanced
    /\ Last(emitted).type = "SearchEmails"
    /\ Last(emitted).tag = 3
    /\ cmd = Done(MissingValue(1))
    /\ stage = StageDone(MissingValue(1))
    /\ run_state = None

\* What the engine would do with the same completion carrying no value.
WithoutValue == on_event(Self, StepCompleted(call'.event.tag, None))

\* The effect emitted is that of the step after the pending one, under a
\* fresh tag, in a run state one step further with the same variables; or,
\* after the last step, the timer.
NextStepOrTimer(cfg, index) ==
    IF index + 1 = Len(cfg.steps)
    THEN /\ cmd' = Do(StartTimer(cfg.run_every, next_tag))
         /\ stage' = WaitingTimer(next_tag)
         /\ run_state' = None
    ELSE /\ cmd'.effect.type = StepEffect(cfg.steps[index + 2])
         /\ cmd'.effect.tag = next_tag
         /\ stage' = Running
         /\ IsSome(run_state')
         /\ Unwrap(run_state').step_index = index + 1
         /\ Unwrap(run_state').variables = Unwrap(run_state).variables
         /\ Unwrap(run_state').pending =
                Some(PendingStep(index + 1, next_tag,
                                 Unwrap(Unwrap(run_state').pending).store_as,
                                 RequiresValue(cfg.steps[index + 2])))

Delivers(recipe, n, x) ==
    /\ PendingStepCompleted
    /\ ThePending.step_index = n
    /\ call'.event.value = Some(x)
    /\ config = Some(from_yaml(recipe).val)

\* C23: the value of an accepted StepCompleted for a step with store_as = v
\* is stored under v, replacing what v held, and is what {{v}} and a typed
\* var reference v give in the effects of the later steps of the cycle; the
\* step that stores v, and the steps before it, do not see it.
C23_DataFlow ==
    [][/\ \A x \in Values :
              /\ (PendingStepCompleted /\ IsSome(ThePending.store_as)
                  /\ call'.event.value = Some(x) /\ IsSome(run_state')) =>
                     Unwrap(run_state').variables =
                         Insert(Unwrap(run_state).variables,
                                Unwrap(ThePending.store_as), x)
              /\ Delivers(ScopeRecipes.overwrite, 0, x) =>
                     cmd' = Do(SearchEmails(x, "Subject", <<"r">> \o x, None, next_tag))
              /\ Delivers(ScopeRecipes.overwrite, 1, x) =>
                     cmd' = Do(SendTelegramMessage(<<"@", "c">>, x \o <<"!">>,
                                                   None, next_tag))
              /\ Delivers(ThreeStepRecipe, 0, x) =>
                     /\ cmd'.kind = "Do"
                     /\ cmd'.effect.type = "SearchEmails"
                     /\ cmd'.effect.regex = x
              /\ (Delivers(ThreeStepRecipe, 1, x)
                  /\ sheet_value \in DOMAIN Unwrap(run_state).variables) =>
                     /\ cmd'.kind = "Do"
                     /\ cmd'.effect.type = "SendTelegramMessage"
                     /\ cmd'.effect.message = Unwrap(run_state).variables[sheet_value]
       /\ FailsAt(ScopeRecipes.producer, 0, NotAvailable(email_subject))
       /\ FailsAt(LateVariableRecipe, 0, NotAvailable(sheet_value))]_vars

\* C23 witness: the sheet step delivered x, the email step read x twice and
\* delivered y under the same name, and the telegram step reads y.
C23_Witness ==
    /\ config = Some(from_yaml(ScopeRecipes.overwrite).val)
    /\ call = CallOnEvent(StepCompleted(3, Some(<<"y">>)))
    /\ advanced
    /\ Len(emitted) = 4
    /\ emitted[3] = SearchEmails(<<"x">>, "Subject", <<"r", "x">>, None, 3)
    /\ emitted[4] = SendTelegramMessage(<<"@", "c">>, <<"y", "!">>, None, 4)
    /\ cmd = Do(emitted[4])
    /\ Unwrap(run_state).variables = Insert(EmptyMap, sheet_value, <<"y">>)

\* The LoadConfig effects emitted so far.
ConfigLoads == SelectSeq(emitted, LAMBDA e : e.type = "LoadConfig")

\* C24: start() emits LoadConfig only from Init: the first start() returns
\* Do(LoadConfig{CONFIG_DISCOVERY, tag 1}) and moves to WaitingConfig{1};
\* start() in WaitingConfig, LoadingEnv, Running or WaitingTimer returns
\* Wait, changes no field and takes no tag; LoadConfig is emitted at most
\* once, as the first effect.
C24_StartOnce ==
    /\ [][call'.op = "start" =>
              /\ stage.kind = "Init" =>
                     /\ cmd' = Do(LoadConfig(CONFIG_DISCOVERY, 1))
                     /\ stage' = WaitingConfig(1)
                     /\ next_tag' = 2
                     /\ emitted' = <<LoadConfig(CONFIG_DISCOVERY, 1)>>
              /\ stage.kind \in LiveStages =>
                     /\ cmd' = Wait
                     /\ UNCHANGED engine
                     /\ emitted' = emitted]_vars
    /\ [](/\ Len(ConfigLoads) <= 1
          /\ \A i \in 1..Len(emitted) : emitted[i].type = "LoadConfig" => i = 1
          /\ stage.kind # "Init" => Len(ConfigLoads) = 1)

\* C24 witness: start() was called again while a step was pending and
\* returned Wait.
C24_Witness ==
    /\ stage.kind = "Running"
    /\ IsSome(Unwrap(run_state).pending)
    /\ call.op = "start"
    /\ ~advanced
    /\ cmd = Wait
    /\ Len(ConfigLoads) = 1

\* The second engine, in the state self, fed the recorded calls that are
\* left, returns the recorded Commands and ends in the state of the first.
RECURSIVE Replayed(_, _)
ReplayedStep(ret, rest) ==
    /\ ret.cmd = Head(rest).cmd
    /\ Replayed(ret.self, Tail(rest))

Replayed(self, rest) ==
    IF rest = <<>> THEN self = Self
    ELSE ReplayedStep(Apply(self, Head(rest).call), rest)

C26_LookupOrder ==
    [][/\ (CycleEntered /\ config' = Some(from_yaml(ScopeRecipes.shadow).val)) =>
              /\ DOMAIN env_values' = {SHEET_ID, TELEGRAM_BOT_TOKEN}
              /\ resolved_credentials'[TELEGRAM_BOT_TOKEN] = <<"k">>
              /\ cmd' = Do(SearchEmails(env_values'[TELEGRAM_BOT_TOKEN], "Subject",
                                        <<"k", "-">> \o env_values'[SHEET_ID],
                                        Some(<<"k">>), next_tag))
       /\ \A x \in Values :
              Delivers(ScopeRecipes.shadow, 0, x) =>
                  /\ TELEGRAM_BOT_TOKEN \in DOMAIN env_values
                  /\ TELEGRAM_BOT_TOKEN \in DOMAIN resolved_credentials
                  /\ cmd'.kind = "Do"
                  /\ cmd'.effect.type = "SendTelegramMessage"
                  /\ cmd'.effect.chat_id = x
       /\ FailsAt(MissingVariableRecipe, 0, NotAvailable(<<"m">>))]_vars

\* C26 witness: TBT is x in the env and k as a credential, and the match y
\* stored under TBT is what the telegram step's {{TBT}} became.
C26_Witness ==
    /\ config = Some(from_yaml(ScopeRecipes.shadow).val)
    /\ stage.kind = "Running"
    /\ Len(emitted) = 5
    /\ env_values[TELEGRAM_BOT_TOKEN] = <<"x">>
    /\ resolved_credentials[TELEGRAM_BOT_TOKEN] = <<"k">>
    /\ call = CallOnEvent(StepCompleted(4, Some(<<"y">>)))
    /\ advanced
    /\ Unwrap(run_state).variables[TELEGRAM_BOT_TOKEN] = <<"y">>
    /\ emitted[4].regex = <<"k", "-">> \o env_values[SHEET_ID]
    /\ cmd.kind = "Do"
    /\ cmd.effect.type = "SendTelegramMessage"
    /\ cmd.effect.chat_id = <<"y">>

\* The scope a typed reference reads.
OwnScope(value) ==
    CASE value.kind = "Env" -> env_values
      [] value.kind = "Credential" -> resolved_credentials
      [] value.kind = "Variable" -> call.variables

\* The error of a typed reference whose own scope lacks the name.
OwnError(value) ==
    CASE value.kind = "Env" -> MissingEnvVar(value.s)
      [] value.kind = "Credential" -> MissingCredential(value.s)
      [] value.kind = "Variable" -> MissingVariable(value.s)

\* C27: a typed reference reads its own scope only: Env(n) the env values,
\* Credential(n) the resolved credentials, Variable(n) the variables; it
\* gives that scope's value for n, or MissingEnvVar, MissingCredential or
\* MissingVariable when that scope lacks n, whatever the other scopes hold.
C27_TypedScopes ==
    call.op = "resolve_value" =>
        IF call.value.s \in DOMAIN OwnScope(call.value)
        THEN cmd = Ok(OwnScope(call.value)[call.value.s])
        ELSE cmd = Err(OwnError(call.value))

\* C27 witness: Env(x) failed with MissingEnvVar although the credentials
\* and the variables both hold x.
C27_Witness ==
    /\ call.op = "resolve_value"
    /\ call.value = Env(ScopeName)
    /\ ScopeName \notin DOMAIN env_values
    /\ ScopeName \in DOMAIN resolved_credentials
    /\ ScopeName \in DOMAIN call.variables
    /\ cmd = Err(MissingEnvVar(ScopeName))

\* What the name x stands for in a template: the variable, else the
\* credential, else the env value, else nothing.
ValueOfName ==
    IF ScopeName \in DOMAIN call.variables THEN Some(call.variables[ScopeName])
    ELSE IF ScopeName \in DOMAIN resolved_credentials
    THEN Some(resolved_credentials[ScopeName])
    ELSE Get(env_values, ScopeName)

\* The text with the value of x between two verbatim parts, or the error of
\* a name without a value.
Substituted(before, value, after) ==
    IF value = None THEN Err(MissingVariable(ScopeName))
    ELSE Ok(before \o Unwrap(value) \o after)

EmptyPlaceholder == Err(InvalidTemplate(<<"empty placeholder in template">>))
UnclosedPlaceholder == Err(InvalidTemplate(<<"unclosed placeholder in template">>))

\* The rendering each template of the model must have, v being the value of x.
Rendering(template, v) ==
    CASE template = <<"a", "b">> -> Ok(<<"a", "b">>)
      [] template = Braces(ScopeName) -> Substituted(<<>>, v, <<>>)
      [] template = Braces(<<" ">> \o ScopeName \o <<" ">>) -> Substituted(<<>>, v, <<>>)
      [] template = Braces(<<>>) -> EmptyPlaceholder
      [] template = Braces(<<" ", " ">>) -> EmptyPlaceholder
      [] template = <<"a", "{", "{">> \o ScopeName -> UnclosedPlaceholder
      [] template = <<"a">> \o Braces(ScopeName) \o <<"b">> ->
            Substituted(<<"a">>, v, <<"b">>)
      [] template = Braces(<<>>) \o <<"{", "{">> \o ScopeName -> EmptyPlaceholder
      [] template = Braces(ScopeName) \o <<"{", "{">> ->
            IF v = None THEN Err(MissingVariable(ScopeName)) ELSE UnclosedPlaceholder
      [] template = Braces(NoName) \o Braces(<<>>) -> Err(MissingVariable(NoName))
      [] template = Braces(ScopeName) \o <<"}", "}">> ->
            Substituted(<<>>, v, <<"}", "}">>)
      [] template = <<"}", "}">> \o Braces(ScopeName) ->
            Substituted(<<"}", "}">>, v, <<>>)
      [] template = Braces(ScopeName) \o Braces(ScopeName) ->
            IF v = None THEN Err(MissingVariable(ScopeName))
            ELSE Ok(Unwrap(v) \o Unwrap(v))
      [] template = <<"{">> \o Braces(ScopeName) ->
            Err(MissingVariable(<<"{">> \o ScopeName))

\* C28: rendering copies the text outside placeholders as it is, puts the
\* value in place of each {{ name }} (the name trimmed) without scanning the
\* value again, and fails with InvalidTemplate for an empty or blank
\* placeholder and for {{ without }}; of several problems the leftmost one
\* is the error.
C28_Rendering ==
    call.op = "render_template" => cmd = Rendering(call.template, ValueOfName)

\* C28 witness: the value of x is the text {{z}}, and {{x}} was rendered as
\* that text although z has no value.
C28_Witness ==
    /\ call.op = "render_template"
    /\ call.template = Braces(ScopeName)
    /\ call.variables = Insert(EmptyMap, ScopeName, Braces(NoName))
    /\ cmd = Ok(Braces(NoName))

\* The literal a credential source stands for once the env vars are loaded.
Materialized(source) ==
    IF source.kind = "Value" THEN source.s ELSE env_values[source.s]

\* The request carries the credentials field its step asks for.
CarriesCredentials(effect, step) ==
    IF step.credentials = None THEN effect.credentials = None
    ELSE /\ Unwrap(step.credentials) \in DOMAIN resolved_credentials
         /\ effect.credentials = Some(resolved_credentials[Unwrap(step.credentials)])

Inner(input) ==
    IF \A i \in 1..Len(input) : input[i] = " " THEN <<>>
    ELSE SubSeq(input,
                CHOOSE i \in 1..Len(input) :
                    input[i] # " " /\ \A j \in 1..(i - 1) : input[j] = " ",
                CHOOSE i \in 1..Len(input) :
                    input[i] # " " /\ \A j \in (i + 1)..Len(input) : input[j] = " ")

\* The number a run of digits writes, read from the left.
RECURSIVE Horner(_, _)
Horner(digits, acc) ==
    IF digits = <<>> THEN acc
    ELSE Horner(Tail(digits), 10 * acc + DigitValue(Head(digits)))

Multiplier(unit) ==
    CASE unit = "s" -> 1 [] unit = "m" -> 60 [] unit = "h" -> 3600 [] unit = "d" -> 86400

\* A non-empty run of digits, then nothing or one of s, m, h, d.
HasUnit(text) == Len(text) >= 2 /\ text[Len(text)] \in {"s", "m", "h", "d"}
DigitRun(text) == IF HasUnit(text) THEN SubSeq(text, 1, Len(text) - 1) ELSE text
IsDuration(text) ==
    /\ DigitRun(text) # <<>>
    /\ \A i \in 1..Len(DigitRun(text)) : IsAsciiDigit(DigitRun(text)[i])

Seconds(text) ==
    Horner(DigitRun(text), 0)
        * (IF HasUnit(text) THEN Multiplier(text[Len(text)]) ELSE 1)

\* C30: after trimming, parse_duration accepts exactly a non-empty run of
\* digits followed by nothing or by one of s, m, h, d, and gives the value
\* times 1, 60, 3600 or 86400 seconds (seconds without a unit); anything
\* else is rejected: "0s" is 0, "10" is 10 s, "", "10x" and "1 0m" are
\* rejected.  from_yaml fails with "invalid run_every value" exactly for the
\* rejected strings and keeps the parsed seconds otherwise.
C30_Duration ==
    /\ call.op = "parse_duration" =>
           /\ cmd = IF IsDuration(Inner(call.input))
                    THEN Some(Seconds(Inner(call.input))) ELSE None
           /\ call.input = <<"0", "s">> => cmd = Some(0)
           /\ call.input = <<"1", "0">> => cmd = Some(10)
           /\ call.input = <<"1", "0", "d">> => cmd = Some(864000)
           /\ call.input \in {<<>>, <<"1", "0", "x">>, <<"1", " ", "0", "m">>,
                              <<"s">>, <<"m", "1">>, <<"1", "s", "s">>} => cmd = None
    /\ call.op = "from_yaml" =>
           cmd = IF IsDuration(Inner(call.input))
                 THEN Ok([run_every |-> Seconds(Inner(call.input)),
                          credentials |-> EmptyMap, steps |-> <<>>])
                 ELSE Err(InvalidConfig(<<"invalid run_every value">>))

\* C30 witness: the run_every "1 0m", a digit after a space, made the recipe
\* fail to parse.
C30_Witness ==
    /\ call.op = "from_yaml"
    /\ call.input = <<"1", " ", "0", "m">>
    /\ cmd = Err(InvalidConfig(<<"invalid run_every value">>))

\* The recipe in force has no step.
NoSteps == IsSome(config) /\ Unwrap(config).steps = <<>>

\* The call returned a timer of the recipe's run_every under a tag not used
\* before and left the engine waiting for it, with no cycle in progress.
TimerOnly(cfg) ==
    /\ cmd' = Do(StartTimer(cfg.run_every, next_tag))
    /\ \A i \in 1..Len(emitted) : emitted[i].tag # next_tag
    /\ stage' = WaitingTimer(next_tag)
    /\ run_state' = None
    /\ next_tag' = next_tag + 1

\* The engine was given the ConfigLoaded it awaited, holding this recipe.
LoadsRecipe(contents) ==
    /\ stage.kind = "WaitingConfig"
    /\ ByEvent
    /\ call'.event = ConfigLoaded(stage.tag, contents)

\* C31: a recipe with an empty step list is accepted and runs timer-only
\* cycles: the response to ConfigLoaded when no env var is required, to the
\* last EnvVarLoaded otherwise, and to every accepted TimerFired is
\* Do(StartTimer{run_every, fresh tag}); the engine is never in Running
\* between calls and no step effect is ever emitted.
C31_EmptySteps ==
    /\ [][/\ LoadsRecipe(EmptyRecipes.plain) =>
                 /\ config' = Some([run_every |-> 5, credentials |-> EmptyMap,
                                    steps |-> <<>>])
                 /\ TimerOnly(Unwrap(config'))
          /\ LoadsRecipe(EmptyRecipes.env) =>
                 /\ IsSome(config')
                 /\ Unwrap(config').run_every = 120
                 /\ Unwrap(config').steps = <<>>
                 /\ cmd' = Do(ReadEnvVar(SHEET_ID, next_tag))
          /\ (/\ NoSteps
              /\ stage.kind = "LoadingEnv"
              /\ pending_env = <<>>
              /\ ByEvent
              /\ call'.event.type = "EnvVarLoaded"
              /\ IsSome(call'.event.value)
              /\ Accepted) => TimerOnly(Unwrap(config))
          /\ (/\ NoSteps
              /\ ByEvent
              /\ call'.event.type = "TimerFired"
              /\ Accepted) => TimerOnly(Unwrap(config))]_vars
    /\ [](NoSteps =>
              /\ stage.kind # "Running"
              /\ run_state = None
              /\ \A i \in 1..Len(emitted) : emitted[i].type \notin StepEffectTypes)

\* C31 witness: the recipe without steps that needs one env var started its
\* third timer in answer to a TimerFired, having emitted nothing but
\* LoadConfig, ReadEnvVar and timers.
C31_Witness ==
    /\ NoSteps
    /\ Unwrap(config).credentials # EmptyMap
    /\ call.op = "on_event"
    /\ call.event.type = "TimerFired"
    /\ cmd.kind = "Do"
    /\ stage.kind = "WaitingTimer"
    /\ EmittedTypes = <<"LoadConfig", "ReadEnvVar", "StartTimer", "StartTimer",
                        "StartTimer">>

AnswersTo(tag) ==
    {ConfigLoadFailed(tag, error) : error \in Errors}
        \cup {EnvVarLoaded(tag, name, value) : name \in EnvNames, value \in OptionalValues}
        \cup {StepCompleted(tag, value) : value \in OptionalValues}
        \cup {TimerFired(tag)}

\* Some event changes the engine.
CanProgress ==
    \E tag \in AwaitedTags : \E event \in AnswersTo(tag) :
        on_event(Self, event).self # Self

\* C33: after every call, the run state exists exactly when the stage is
\* Running, and then it has a pending step whose index is the current step
\* index, which is less than the number of steps; the current env request
\* exists exactly when the stage is LoadingEnv; so in WaitingConfig,
\* LoadingEnv, Running and WaitingTimer exactly one tag is awaited and some
\* event carrying it makes the engine move.
C33_Consistent ==
    /\ IsSome(run_state) <=> stage.kind = "Running"
    /\ IsSome(run_state) =>
           /\ IsSome(config)
           /\ IsSome(Unwrap(run_state).pending)
           /\ Unwrap(Unwrap(run_state).pending).step_index = Unwrap(run_state).step_index
           /\ Unwrap(run_state).step_index < Len(Unwrap(config).steps)
    /\ IsSome(current_env) <=> stage.kind = "LoadingEnv"
    /\ stage.kind \in LiveStages => (Len(Awaited) = 1 /\ CanProgress)
    /\ stage.kind \in {"Init", "Done"} => Awaited = <<>>

\* C33 witness: the completion of the first step left the engine in Running
\* with the second step pending under the one awaited tag.
C33_Witness ==
    /\ stage.kind = "Running"
    /\ call.op = "on_event"
    /\ call.event.type = "StepCompleted"
    /\ advanced
    /\ IsSome(run_state)
    /\ Unwrap(run_state).step_index = 1
    /\ IsSome(Unwrap(run_state).pending)
    /\ Unwrap(Unwrap(run_state).pending).step_index = 1
    /\ Awaited = <<Unwrap(Unwrap(run_state).pending).tag>>
    /\ current_env = None

\* The workflow ended with the error text of FlowError::MissingEnvVar.
EndsMissingEnvVar ==
    /\ stage.kind # "Done"
    /\ cmd'.kind = "Done"
    /\ ~cmd'.res.ok
    /\ cmd'.res.err # <<>>
    /\ cmd'.res.err[1] = "environment variable '"

\* env_values and resolved_credentials hold what the recipe names.
EnvComplete(self) ==
    /\ IsSome(self.config)
    /\ DOMAIN self.env_values = env_requests(Unwrap(self.config))
    /\ DOMAIN self.resolved_credentials = DOMAIN Unwrap(self.config).credentials

\* C34: when env loading ends and the first cycle is entered, env_values
\* holds exactly the names of env_requests and resolved_credentials exactly
\* the credential names of the recipe, and so in every later state; hence
\* finalize_credentials does not fail once the last name is loaded, a typed
\* env reference of a step resolves, and the workflow ends with the
\* MissingEnvVar error only by an accepted EnvVarLoaded with value None.
C34_EnvComplete ==
    /\ [][(stage.kind \in {"WaitingConfig", "LoadingEnv"}
               /\ stage'.kind \in {"Running", "WaitingTimer"}) =>
              /\ EnvComplete([config |-> config', env_values |-> env_values',
                              resolved_credentials |-> resolved_credentials'])
              /\ pending_env' = <<>>]_vars
    /\ [](stage.kind \in {"Running", "WaitingTimer"} =>
              /\ EnvComplete(Self)
              /\ finalize_credentials(Self).ok)
    /\ [][(/\ stage.kind = "LoadingEnv"
           /\ stage'.kind = "Done") =>
              /\ ByEvent
              /\ call'.event.type = "EnvVarLoaded"
              /\ call'.event.value = None]_vars
    /\ [][EndsMissingEnvVar =>
              /\ stage.kind = "LoadingEnv"
              /\ ByEvent
              /\ call'.event.type = "EnvVarLoaded"
              /\ call'.event.value = None
              /\ IsSome(current_env)
              /\ call'.event.tag = Unwrap(current_env).tag
              /\ call'.event.name = Unwrap(current_env).name
              /\ cmd'.res = Err(to_string(MissingEnvVar(call'.event.name)))]_vars

\* C34 witness: the recipe whose first step reads the env var TBT by a typed
\* reference and whose credential gd comes from the env var SID emitted that
\* step with both values in place.
C34_Witness ==
    /\ config = Some(from_yaml(ScopeRecipes.shadow).val)
    /\ stage.kind = "Running"
    /\ call.op = "on_event"
    /\ call.event.type = "EnvVarLoaded"
    /\ cmd.kind = "Do"
    /\ cmd.effect.type = "SearchEmails"
    /\ cmd.effect.account = env_values[TELEGRAM_BOT_TOKEN]
    /\ DOMAIN env_values = {SHEET_ID, TELEGRAM_BOT_TOKEN}
    /\ DOMAIN resolved_credentials = {TELEGRAM_BOT_TOKEN, google_docs}
    /\ resolved_credentials[google_docs] = env_values[SHEET_ID]

\* C35: for every run_every whose digit run parses as a u64 v and whose
\* unit is m, h or d, parse_duration returns, and returns exactly v x 60,
\* v x 3600 or v x 86400 seconds: no abort and no wrap-around to a shorter
\* duration.
C35_NoOverflow ==
    (/\ call.op = "parse_duration"
     /\ HasUnit(call.input)
     /\ call.input[Len(call.input)] \in {"m", "h", "d"}
     /\ IsDuration(call.input)
     /\ IsSome(ParseU64(DigitRun(call.input)))) =>
        /\ Len(cmd) = 1
        /\ Unwrap(cmd) % Multiplier(call.input[Len(call.input)]) = 0
        /\ Unwrap(cmd) \div Multiplier(call.input[Len(call.input)])
               = Unwrap(ParseU64(DigitRun(call.input)))

\* The two ways C35 fails on the input u64::MAX / 60 + 1 minutes: the call
\* panicked, or returned fewer seconds than minutes were asked for.
OverflowPanicked ==
    /\ call = [op |-> "parse_duration",
               input |-> Decimal((U64_MAX \div 60) + 1) \o <<"m">>]
    /\ cmd = Panicked

OverflowWrapped ==
    /\ call = [op |-> "parse_duration",
               input |-> Decimal((U64_MAX \div 60) + 1) \o <<"m">>]
    /\ Len(cmd) = 1
    /\ Unwrap(cmd) < (U64_MAX \div 60) + 1

\* C36: done() leaves the engine as it is; it returns Err(message) exactly
\* when the stage is Done, the message being the one the call that ended the
\* workflow returned in Command::Done, and Ok(()) in Init, WaitingConfig,
\* LoadingEnv, Running and WaitingTimer.
C36_DoneAccessor ==
    /\ [](/\ done(Self).ok <=> stage.kind # "Done"
          /\ stage.kind \in {"Init"} \cup LiveStages => done(Self) = Ok(Unit)
          /\ stage.kind = "Done" => (~stage.res.ok /\ done(Self) = Err(stage.res.err)))
    /\ [][call'.op = "done" =>
              /\ UNCHANGED engine
              /\ emitted' = emitted
              /\ cmd' = IF stage.kind = "Done" THEN stage.res ELSE Ok(Unit)]_vars
    /\ [][(stage.kind # "Done" /\ stage'.kind = "Done") =>
              /\ cmd'.kind = "Done"
              /\ ~cmd'.res.ok
              /\ done([stage |-> stage']) = cmd'.res]_vars
    /\ [][stage.kind = "Done" => done([stage |-> stage']) = done(Self)]_vars

\* C36 witness: asked after a failed step ended the workflow, done()
\* returned the error of that step.
C36_Witness ==
    /\ call.op = "done"
    /\ stage.kind = "Done"
    /\ cmd = Err(to_string(StepFailure(0, <<"t", "i", "m", "e", "o", "u", "t">>)))
    /\ cmd = stage.res
    /\ Len(emitted) = 2

=============================================================================
